---- MODULE Spec2Model ----
(***************************************************************************)
(* A model of steam-library-fixer: the VDF parser and writer               *)
(* (src/src/vdf_parser.py) and the fixer operations that read, edit and    *)
(* rewrite VDF files (src/src/fixer.py).                                   *)
(*                                                                         *)
(* Text is modelled character by character: a string is a sequence of      *)
(* one-character strings, a file is such a string, and the parser sees it  *)
(* only through split, strip and the tokenizer's regular expression.       *)
(***************************************************************************)
EXTENDS Integers, Sequences, FiniteSets, TLC

VARIABLES
    phase,         \* position of the modelled run
    doc,           \* SpecRT / SpecText: the dictionary handed to write
    written,       \* SpecRT: write(doc); SpecText: the edited text
    parsed,        \* parse(written)
    rewritten,     \* SpecRT: write(parsed)
    edit,          \* SpecText: how the canonical text was damaged
    lines,         \* SpecParse: the list of lines given to _parse_section
    start_idx,     \* SpecParse: the start index given to _parse_section
    pstate,        \* SpecParse: call stack and return value of _parse_section
    manifest,      \* SpecFix: the file at issue.manifest_path
    library_vdf,   \* SpecFix: the file at scanner.library_vdf_path
    manifest_before, \* SpecFix: the manifest file before the handler ran
    library_before,  \* SpecFix: libraryfolders.vdf before the handler ran
    dead_ids,      \* SpecFix: library_id of each dead library, in order
    io,            \* SpecFix: what writing a file does: "ok", "open_fails", "write_fails"
    dry_run,       \* SteamFixer.dry_run
    fixed_count,   \* SteamFixer.fixed_count
    failed_count,  \* SteamFixer.failed_count
    returned,      \* SpecFix: the handler's return value: "none", "True", "False"
    tok_line,      \* SpecTok: the line given to _tokenize
    tok_tokens,    \* SpecTok: the list _tokenize returned
    app_name,      \* SpecName: what get_app_name_from_manifest returned
    disk,          \* SpecRun: the file at each path of steamapps
    dirs,          \* SpecRun: the ids of the libraries whose path exists
    downloads,     \* SpecRun: the items in the downloading folders
    libraries,     \* SteamScanner.libraries
    games,         \* SteamScanner.games
    issues,        \* SteamScanner.issues
    orphaned_downloads, \* SteamScanner.orphaned_downloads
    cursor,        \* SpecRun: the index of the item fix_all handles next
    backup,        \* SpecRun: what create_backup copied
    disk_before,   \* SpecRun: disk and downloads when fix_all started
    log,           \* SpecRun: one record for each item fix_all handled
    summary,       \* SpecRun: what fix_all returned
    cli,           \* SpecCli: one run of main(): options, answers, position
    bm             \* SpecBackup: the backup directory, the files, the clock

vars == <<phase, doc, written, parsed, rewritten, edit, lines, start_idx,
          pstate, manifest, library_vdf, manifest_before,
          library_before, dead_ids, io, dry_run, fixed_count, failed_count,
          returned, tok_line, tok_tokens, app_name, disk, dirs, downloads,
          libraries, games, issues, orphaned_downloads, cursor, backup,
          disk_before, log, summary, cli, bm>>

----------------------------------------------------------------------------
(* Characters and strings *)

QUOTE == "\""
TAB == "\t"
SPACE == " "
NL == "\n"

\* The characters str.strip() removes and \S rejects, over the model's alphabet.
IsSpace(c) == c \in {SPACE, TAB, NL}

DigitChars == <<"0", "1", "2", "3", "4", "5", "6", "7", "8", "9">>

IsDigit(c) == \E i \in 1..Len(DigitChars) : DigitChars[i] = c

DigitValue(c) == (CHOOSE i \in 1..Len(DigitChars) : DigitChars[i] = c) - 1

MinOf(S) == CHOOSE x \in S : \A y \in S : x <= y

\* The first position >= from that holds character c, or 0.
IndexOf(s, c, from) ==
    LET hits == {i \in from..Len(s) : s[i] = c}
    IN IF hits = {} THEN 0 ELSE MinOf(hits)

HasChar(s, c) == \E i \in 1..Len(s) : s[i] = c

RECURSIVE LStrip(_)
LStrip(s) ==
    IF s = <<>> THEN s
    ELSE IF IsSpace(Head(s)) THEN LStrip(Tail(s)) ELSE s

RECURSIVE RStrip(_)
RStrip(s) ==
    IF s = <<>> THEN s
    ELSE IF IsSpace(s[Len(s)]) THEN RStrip(SubSeq(s, 1, Len(s) - 1)) ELSE s

\* str.strip()
Strip(s) == LStrip(RStrip(s))

\* str.startswith(prefix)
StartsWith(s, prefix) ==
    /\ Len(s) >= Len(prefix)
    /\ SubSeq(s, 1, Len(prefix)) = prefix

\* content.split('\n'): the empty string splits into one empty line.
RECURSIVE SplitLines(_)
SplitLines(s) ==
    LET p == IndexOf(s, NL, 1)
    IN IF p = 0 THEN <<s>>
       ELSE <<SubSeq(s, 1, p - 1)>> \o SplitLines(SubSeq(s, p + 1, Len(s)))

\* '\n'.join(ls)
RECURSIVE JoinLines(_)
JoinLines(ls) ==
    IF ls = <<>> THEN <<>>
    ELSE IF Len(ls) = 1 THEN ls[1]
    ELSE ls[1] \o <<NL>> \o JoinLines(Tail(ls))

\* '\t' * indent_level
RECURSIVE Tabs(_)
Tabs(n) == IF n <= 0 THEN <<>> ELSE <<TAB>> \o Tabs(n - 1)

----------------------------------------------------------------------------
(* Numbers: int(value), float(value), str(number) *)

RECURSIVE StrToNat(_)
StrToNat(s) ==
    IF s = <<>> THEN 0
    ELSE 10 * StrToNat(SubSeq(s, 1, Len(s) - 1)) + DigitValue(s[Len(s)])

RECURSIVE NatToStr(_)
NatToStr(n) ==
    IF n < 10 THEN <<DigitChars[n + 1]>>
    ELSE NatToStr(n \div 10) \o <<DigitChars[(n % 10) + 1]>>

AllDigits(s) == \A i \in 1..Len(s) : IsDigit(s[i])

\* Whether int(value) succeeds: surrounding whitespace is ignored, and what is
\* left is one or more decimal digits (the model's alphabet has no sign and
\* no underscore).
IntAccepts(value) ==
    LET s == Strip(value) IN s # <<>> /\ AllDigits(s)

IntOf(value) == StrToNat(Strip(value))

\* Whether float(value) succeeds for a value that holds a '.': digits, one
\* point, digits, with a digit on at least one side (the model's alphabet has
\* no sign, no exponent and no letters of inf/nan).
FloatAccepts(value) ==
    LET s == Strip(value)
        p == IndexOf(s, ".", 1)
    IN /\ p # 0
       /\ AllDigits(SubSeq(s, 1, p - 1))
       /\ AllDigits(SubSeq(s, p + 1, Len(s)))
       /\ Len(s) >= 2

RECURSIVE StripTrailingZeros(_)
StripTrailingZeros(s) ==
    IF s = <<>> THEN s
    ELSE IF s[Len(s)] = "0" THEN StripTrailingZeros(SubSeq(s, 1, Len(s) - 1))
    ELSE s

----------------------------------------------------------------------------
(* Values and dictionaries *)

\* A value of the parsed tree: a str, an int, a float or a dict.  A float is
\* held as its integer part and its fraction digits without trailing zeros,
\* so that two floats are equal exactly when the numbers are.
StrValue(s) == [tag |-> "str", text |-> s, num |-> 0, items |-> <<>>]
IntValue(n) == [tag |-> "int", text |-> <<>>, num |-> n, items |-> <<>>]
FloatValue(n, frac) == [tag |-> "float", text |-> frac, num |-> n, items |-> <<>>]
\* None
NoneValue == [tag |-> "none", text |-> <<>>, num |-> 0, items |-> <<>>]
DictValue(d) == [tag |-> "dict", text |-> <<>>, num |-> 0, items |-> d]

FloatOf(value) ==
    LET s == Strip(value)
        p == IndexOf(s, ".", 1)
    IN FloatValue(StrToNat(SubSeq(s, 1, p - 1)),
                  StripTrailingZeros(SubSeq(s, p + 1, Len(s))))

\* str(value) as the f-string of write renders it.
FormatValue(v) ==
    IF v.tag = "str" THEN v.text
    ELSE IF v.tag = "int" THEN NatToStr(v.num)
    ELSE NatToStr(v.num) \o <<".">> \o (IF v.text = <<>> THEN <<"0">> ELSE v.text)

\* A dict is the sequence of its items in insertion order.
EmptyDict == <<>>

DictHas(d, k) == \E i \in 1..Len(d) : d[i].key = k

DictIndex(d, k) == CHOOSE i \in 1..Len(d) : d[i].key = k

DictGet(d, k) == d[DictIndex(d, k)].val

\* Mutant of DictSet: an existing key keeps its first value.
DictSet_KeepFirst(d, k, v) ==
    IF DictHas(d, k) THEN d ELSE Append(d, [key |-> k, val |-> v])

\* d[k] = v: an existing key keeps its position, a new one goes last.
DictSet(d, k, v) ==
    IF DictHas(d, k)
    THEN [d EXCEPT ![DictIndex(d, k)] = [key |-> k, val |-> v]]
    ELSE Append(d, [key |-> k, val |-> v])

\* Mutant of DictDel: everything from the key on is removed.
DictDel_Truncate(d, k) == SubSeq(d, 1, DictIndex(d, k) - 1)

\* del d[k]
DictDel(d, k) ==
    LET i == DictIndex(d, k)
    IN SubSeq(d, 1, i - 1) \o SubSeq(d, i + 1, Len(d))

DictKeys(d) == {d[i].key : i \in 1..Len(d)}

----------------------------------------------------------------------------
(* VDFParser._tokenize *)

\* The end of the maximal run of non-whitespace characters that starts at p.
RunEnd(line, p) ==
    LET stops == {i \in p..Len(line) : IsSpace(line[i])}
    IN IF stops = {} THEN Len(line) ELSE MinOf(stops) - 1

\* re.findall(r'"([^"]*)"|(\S+)', line): the (quoted, unquoted) group pairs of
\* the successive leftmost matches.
RECURSIVE FindAll(_, _)
FindAll(line, p) ==
    IF p > Len(line) THEN <<>>
    ELSE LET close == IF line[p] = QUOTE THEN IndexOf(line, QUOTE, p + 1) ELSE 0
         IN IF close # 0
            THEN <<[quoted |-> SubSeq(line, p + 1, close - 1), unquoted |-> <<>>]>>
                 \o FindAll(line, close + 1)
            ELSE IF ~IsSpace(line[p])
            THEN <<[quoted |-> <<>>, unquoted |-> SubSeq(line, p, RunEnd(line, p))]>>
                 \o FindAll(line, RunEnd(line, p) + 1)
            ELSE FindAll(line, p + 1)

\* The token of one match, and whether it is kept.
MatchToken(m) == IF m.quoted # <<>> THEN m.quoted ELSE m.unquoted

RECURSIVE KeepTokens(_)
KeepTokens(matches) ==
    IF matches = <<>> THEN <<>>
    ELSE LET token == MatchToken(Head(matches))
         IN (IF token # <<>> THEN <<token>> ELSE <<>>) \o KeepTokens(Tail(matches))

tokenize(line) == KeepTokens(FindAll(line, 1))

----------------------------------------------------------------------------
(* VDFParser._parse_section and VDFParser.parse *)

\* current_key: None, or a token.
NoKey == [some |-> FALSE, key |-> <<>>]
SomeKey(k) == [some |-> TRUE, key |-> k]
\* `if current_key:`
Truthy(ck) == ck.some /\ ck.key # <<>>

\* Mutant of ConvertValue: the value is kept as written.
ConvertValue_KeepText(value) == StrValue(value)

\* The conversion of a two-token line's value.
ConvertValue(value) ==
    IF HasChar(value, ".")
    THEN IF FloatAccepts(value) THEN FloatOf(value) ELSE StrValue(value)
    ELSE IF IntAccepts(value) THEN IntValue(IntOf(value)) ELSE StrValue(value)

\* One activation of _parse_section: its locals and its start_idx argument.
NewFrame(start) ==
    [result |-> EmptyDict, i |-> start, current_key |-> NoKey, start_idx |-> start]

\* The parser's call stack (the running activation last) and, once the
\* outermost activation has returned, the tuple it returned.
InitParser(start) ==
    [stack |-> <<NewFrame(start)>>, done |-> FALSE,
     ret |-> [result |-> EmptyDict, idx |-> 0]]

TopFrame(st) == st.stack[Len(st.stack)]

SetTop(st, f) == [st EXCEPT !.stack[Len(st.stack)] = f]

\* `return result, idx` of the running activation.  The outermost activation
\* ends the parse; a nested one hands (nested_data, new_idx) to its caller,
\* which stores the section under its current_key, moves to new_idx and
\* clears current_key.
ReturnFrom(st, result, idx) ==
    LET n == Len(st.stack)
    IN IF n = 1
       THEN [stack |-> <<>>, done |-> TRUE, ret |-> [result |-> result, idx |-> idx]]
       ELSE LET caller == st.stack[n - 1]
            IN [st EXCEPT !.stack =
                   Append(SubSeq(st.stack, 1, n - 2),
                          [caller EXCEPT
                               !.result = DictSet(caller.result, caller.current_key.key,
                                                  DictValue(result)),
                               !.i = idx,
                               !.current_key = NoKey])]

\* `i += 1`
Advance(st) == SetTop(st, [TopFrame(st) EXCEPT !.i = @ + 1])

\* Mutant of OpenBrace: the skipped '{' line forgets `i += 1`.
OpenBrace_NoAdvance(st) ==
    LET f == TopFrame(st)
    IN IF Truthy(f.current_key)
       THEN [st EXCEPT !.stack = Append(st.stack, NewFrame(f.i + 1))]
       ELSE st

\* The '{' branch: with a current_key the parser calls itself at i + 1,
\* without one it skips the line.
OpenBrace(st) ==
    LET f == TopFrame(st)
    IN IF Truthy(f.current_key)
       THEN [st EXCEPT !.stack = Append(st.stack, NewFrame(f.i + 1))]
       ELSE Advance(st)

\* Mutant of KeyLine: the bare key is stored at once, with an empty value.
KeyLine_Store(st, token) ==
    LET f == TopFrame(st)
    IN SetTop(st, [f EXCEPT !.result = DictSet(f.result, token, StrValue(<<>>)),
                            !.current_key = SomeKey(token), !.i = @ + 1])

\* The one-token branch: the token becomes current_key.
KeyLine(st, token) ==
    LET f == TopFrame(st)
    IN SetTop(st, [f EXCEPT !.current_key = SomeKey(token), !.i = @ + 1])

\* The two-token branch: result[key] = converted value.
PairLine(st, key, value) ==
    LET f == TopFrame(st)
    IN SetTop(st, [f EXCEPT !.result = DictSet(f.result, key, ConvertValue(value)),
                            !.i = @ + 1])

\* Mutant of EndOfInput: the partial section is given up at the end of input.
EndOfInput_Empty(st) == ReturnFrom(st, EmptyDict, TopFrame(st).i)

\* The loop condition fails: `return result, i` after the loop.
EndOfInput(st) == ReturnFrom(st, TopFrame(st).result, TopFrame(st).i)

\* Mutant of CloseSection: the index returned is that of the '}' line itself.
CloseSection_SameLine(st) == ReturnFrom(st, TopFrame(st).result, TopFrame(st).i)

\* `return result, i + 1` at a '}' line.
CloseSection(st) == ReturnFrom(st, TopFrame(st).result, TopFrame(st).i + 1)

\* `line == '}'`: the end of a section.
IsClose(line) == line = <<"}">>

\* One pass of the while loop of the running activation (or its final return
\* when the loop condition fails).  Python indexes lines from 0.
ParseStep(ls, st) ==
    LET f == TopFrame(st)
    IN IF ~(f.i < Len(ls)) THEN EndOfInput(st)
       ELSE LET line == Strip(ls[f.i + 1])
            IN IF line = <<>> \/ StartsWith(line, <<"/", "/">>) THEN Advance(st)
               ELSE IF IsClose(line) THEN CloseSection(st)
               ELSE LET tokens == tokenize(line)
                    IN IF Len(tokens) >= 1
                       THEN IF tokens[1] = <<"{">> THEN OpenBrace(st)
                            ELSE IF Len(tokens) = 1 THEN KeyLine(st, tokens[1])
                            ELSE IF Len(tokens) = 2 THEN PairLine(st, tokens[1], tokens[2])
                            ELSE Advance(st)
                       ELSE Advance(st)

RECURSIVE RunParser(_, _)
RunParser(ls, st) == IF st.done THEN st ELSE RunParser(ls, ParseStep(ls, st))

\* _parse_section(lines, start_idx) -> (result, end_index)
parse_section(ls, start) == RunParser(ls, InitParser(start)).ret

\* VDFParser.parse(content)
parse(content) == parse_section(SplitLines(content), 0).result

----------------------------------------------------------------------------
(* VDFParser.write *)

RECURSIVE write(_, _)
RECURSIVE WriteItems(_, _)

\* The lines the loop body appends for one item.
ItemLines(item, indent_level) ==
    LET indent == Tabs(indent_level)
    IN IF item.val.tag = "dict"
       THEN << indent \o <<QUOTE>> \o item.key \o <<QUOTE>>,
               indent \o <<"{">>,
               write(item.val.items, indent_level + 1),
               indent \o <<"}">> >>
       ELSE << indent \o <<QUOTE>> \o item.key \o <<QUOTE, TAB, TAB, QUOTE>>
                      \o FormatValue(item.val) \o <<QUOTE>> >>

WriteItems(data, indent_level) ==
    IF data = <<>> THEN <<>>
    ELSE ItemLines(Head(data), indent_level) \o WriteItems(Tail(data), indent_level)

write(data, indent_level) == JoinLines(WriteItems(data, indent_level))

----------------------------------------------------------------------------
(* Bounds and input alphabets *)

\* The largest number of entries, counted over all nesting levels, of a
\* dictionary handed to write.
MaxNodes == 3

\* The keys and scalar texts the dictionaries are built from.
RTKeys == {<<"a">>, <<"b">>, <<"{">>}
RTTexts == {<<>>, <<"x">>, <<"0", "0", "7">>, <<"4", "2">>}

RECURSIVE ItemListsOfSize(_, _, _, _)
\* Every list of exactly n entries (nested ones included) with keys in K and
\* string scalars in T.  With `distinct` the keys of every section differ, as
\* in a Python dict; without it sibling keys may repeat, as in a text.
ItemListsOfSize(K, T, n, distinct) ==
    IF n = 0 THEN {<<>>}
    ELSE UNION {
        LET firsts ==
                IF s = 1
                THEN {[key |-> k, val |-> StrValue(t)] : k \in K, t \in T}
                     \cup {[key |-> k, val |-> DictValue(<<>>)] : k \in K}
                ELSE {[key |-> k, val |-> DictValue(d)] :
                          k \in K, d \in ItemListsOfSize(K, T, s - 1, distinct)}
            rests == ItemListsOfSize(K, T, n - s, distinct)
        IN UNION {{<<f>> \o rest :
                      rest \in {r \in rests : distinct => ~DictHas(r, f.key)}}
                  : f \in firsts}
        : s \in 1..n}

ItemListsUpTo(K, T, n, distinct) ==
    UNION {ItemListsOfSize(K, T, m, distinct) : m \in 0..n}

\* The dictionaries of up to n entries.
RTDicts(n) == ItemListsUpTo(RTKeys, RTTexts, n, TRUE)

----------------------------------------------------------------------------
(* Idle values of the variables a specification does not use *)

NoEdit == [kind |-> "none", at |-> 0]
IdleParser == [stack |-> <<>>, done |-> TRUE, ret |-> [result |-> EmptyDict, idx |-> 0]]

IdleRT == doc = <<>> /\ rewritten = <<>>
IdleText == written = <<>> /\ parsed = <<>> /\ edit = NoEdit
IdleParse == lines = <<>> /\ start_idx = 0 /\ pstate = IdleParser
NoFile == [exists |-> FALSE, content |-> <<>>]
FileOf(content) == [exists |-> TRUE, content |-> content]

IdleManifest == manifest = NoFile /\ manifest_before = NoFile
IdleLibrary == library_vdf = NoFile /\ library_before = NoFile /\ dead_ids = <<>>
IdleFix ==
    /\ IdleManifest /\ IdleLibrary
    /\ io = "ok" /\ dry_run = FALSE
    /\ fixed_count = 0 /\ failed_count = 0 /\ returned = "none"

IdleTok == tok_line = <<>> /\ tok_tokens = <<>> /\ app_name = NoneValue
NoBackup == [made |-> FALSE, files |-> <<>>]
NoSummary == [returned |-> FALSE, raised |-> FALSE, fixed |-> 0, failed |-> 0, dry_run |-> FALSE]
IdleScanner ==
    /\ libraries = <<>> /\ games = <<>> /\ issues = <<>> /\ orphaned_downloads = <<>>
IdleFixer ==
    /\ cursor = 0 /\ backup = NoBackup /\ disk_before = <<>> /\ log = <<>>
    /\ summary = NoSummary
IdleExt == cli = <<>> /\ bm = <<>>
IdleRun == disk = <<>> /\ dirs = {} /\ downloads = <<>> /\ IdleScanner /\ IdleFixer

rtVars == <<doc, written, parsed, rewritten, edit>>
parseVars == <<lines, start_idx, pstate>>
fixVars == <<manifest, library_vdf, manifest_before, library_before, dead_ids,
             io, dry_run, fixed_count, failed_count, returned>>
tokVars == <<tok_line, tok_tokens, app_name>>
runVars == <<disk, dirs, downloads, libraries, games, issues, orphaned_downloads,
             cursor, backup, disk_before, log, summary>>
extVars == <<cli, bm>>

----------------------------------------------------------------------------------------------------------------------------------------
(* SpecTok: _tokenize on arbitrary lines *)

\* The longest line.
MaxChars == 5

\* The characters of the lines: the quote, both kinds of blank, a letter.
TokChars == {QUOTE, SPACE, TAB, "a"}

RECURSIVE CharSeqs(_)
\* Every line of at most n characters.
CharSeqs(n) ==
    IF n = 0 THEN {<<>>}
    ELSE CharSeqs(n - 1)
         \cup {s \o <<c>> : s \in {t \in CharSeqs(n - 1) : Len(t) = n - 1}, c \in TokChars}

TokInit ==
    /\ phase = "tok_start"
    /\ tok_line \in CharSeqs(MaxChars)
    /\ tok_tokens = <<>>
    /\ app_name = NoneValue
    /\ IdleRT /\ IdleText /\ IdleParse /\ IdleFix /\ IdleRun /\ IdleExt

\* tokens = VDFParser._tokenize(line)
Tokenize ==
    /\ phase = "tok_start"
    /\ tok_tokens' = tokenize(tok_line)
    /\ phase' = "tok_done"
    /\ UNCHANGED <<extVars, tok_line, app_name, rtVars, parseVars, fixVars, runVars>>

TokNext == Tokenize

SpecTok == TokInit /\ [][TokNext]_vars

----------------
(* SpecRT: write a dictionary, parse the text, write the result again *)

RTInit ==
    /\ phase = "rt_start"
    /\ doc \in RTDicts(MaxNodes)
    /\ rewritten = <<>>
    /\ IdleText /\ IdleParse /\ IdleFix /\ IdleTok /\ IdleRun /\ IdleExt

\* text = VDFParser.write(doc)
RTWrite ==
    /\ phase = "rt_start"
    /\ written' = write(doc, 0)
    /\ phase' = "rt_written"
    /\ UNCHANGED <<extVars, doc, parsed, rewritten, edit, parseVars, fixVars, tokVars, runVars>>

\* parsed = VDFParser.parse(text)
RTParse ==
    /\ phase = "rt_written"
    /\ parsed' = parse(written)
    /\ phase' = "rt_parsed"
    /\ UNCHANGED <<extVars, doc, written, rewritten, edit, parseVars, fixVars, tokVars, runVars>>

\* again = VDFParser.write(parsed)
RTRewrite ==
    /\ phase = "rt_parsed"
    /\ rewritten' = write(parsed, 0)
    /\ phase' = "rt_done"
    /\ UNCHANGED <<extVars, doc, written, parsed, edit, parseVars, fixVars, tokVars, runVars>>

RTNext == RTWrite \/ RTParse \/ RTRewrite

SpecRT == RTInit /\ [][RTNext]_vars

----------------------------------------------------------------------------
(* SpecParse: _parse_section on arbitrary lines, one loop pass per step *)

\* The largest number of lines given to _parse_section.
MaxLines == 4

\* The lines the inputs are made of, one or two for every branch of the loop:
\* a bare key, braces, scalar lines with quoted and unquoted tokens and a
\* numeric-looking value, a three-token line, a blank line, a comment, a
\* line of no token (an empty quoted string) and a line whose key is the
\* empty quoted string.
ParseLineSet ==
    { <<QUOTE, "a", QUOTE>>,
      <<"{">>,
      <<TAB, "}">>,
      <<QUOTE, "b", QUOTE, TAB, TAB, QUOTE, "0", "7", QUOTE>>,
      <<"a", SPACE, QUOTE, "x", QUOTE>>,
      <<"a", SPACE, "b", SPACE, "c">>,
      <<SPACE>>,
      <<"/", "/", SPACE, "c">>,
      <<QUOTE, QUOTE>>,
      <<QUOTE, QUOTE, SPACE, QUOTE, "x", QUOTE>> }

LineSeqs(n) == UNION {[1..m -> ParseLineSet] : m \in 0..n}

ParseInit ==
    /\ phase = "parsing"
    /\ lines \in LineSeqs(MaxLines)
    /\ start_idx \in 0..Len(lines)
    /\ pstate = InitParser(start_idx)
    /\ IdleRT /\ IdleText /\ IdleFix /\ IdleTok /\ IdleRun /\ IdleExt

\* The position of the parse in the lines: the running activation's i, or
\* the returned index once the outermost activation has returned.
Cursor(st) == IF st.done THEN st.ret.idx ELSE TopFrame(st).i

Depth(st) == Len(st.stack)

\* One pass of the loop (or the return that ends an activation).
ParseOne ==
    /\ phase = "parsing"
    /\ ~pstate.done
    /\ pstate' = ParseStep(lines, pstate)
    /\ phase' = IF pstate'.done THEN "parse_done" ELSE "parsing"
    /\ UNCHANGED <<extVars, lines, start_idx, rtVars, fixVars, tokVars, runVars>>

ParseNext == ParseOne

SpecParse == ParseInit /\ [][ParseNext]_vars

----------------------------------------------------------------------------
(* SpecText: parse a text in the writer's layout, possibly damaged *)

\* The largest number of entries, counted over all nesting levels, of a text.
MaxItems == 3

\* Keys and scalar texts of the texts: plain ones, which the parser stores as
\* they are written.
TextKeys == {<<"a">>, <<"b">>}
TextTexts == {<<"x">>, <<"y">>}

\* The texts of up to n entries, sibling keys repeated or not.
TextItemLists(n) == ItemListsUpTo(TextKeys, TextTexts, n, FALSE)

\* The lines of the text that lists the items in the writer's layout.
LayoutLines(items) == SplitLines(write(items, 0))

\* The line an edit inserts: three tokens, a lone '{', a lone '}'.
MalformedLine(kind) ==
    IF kind = "three" THEN <<"x", SPACE, "y", SPACE, "z">>
    ELSE IF kind = "open" THEN <<"{">>
    ELSE <<"}">>

InsertKinds == {"three", "open", "close"}

\* The edits of a text of n lines: none, the loss of everything after the
\* first `at` lines, or a malformed line inserted after the first `at` lines.
EditsOf(n) ==
    {NoEdit}
    \cup {[kind |-> "truncate", at |-> k] : k \in 0..(n - 1)}
    \cup {[kind |-> m, at |-> k] : m \in InsertKinds, k \in 0..n}

ApplyEdit(ls, e) ==
    IF e.kind = "none" THEN ls
    ELSE IF e.kind = "truncate" THEN SubSeq(ls, 1, e.at)
    ELSE SubSeq(ls, 1, e.at) \o <<MalformedLine(e.kind)>> \o SubSeq(ls, e.at + 1, Len(ls))

TextInit ==
    /\ phase = "text_start"
    /\ doc \in TextItemLists(MaxItems)
    /\ \E ls \in {LayoutLines(doc)} :
          /\ edit \in EditsOf(Len(ls))
          /\ \E edited \in {ApplyEdit(ls, edit)} : written = JoinLines(edited)
    /\ parsed = <<>>
    /\ rewritten = <<>>
    /\ IdleParse /\ IdleFix /\ IdleTok /\ IdleRun /\ IdleExt

\* parsed = VDFParser.parse(content)
TextParse ==
    /\ phase = "text_start"
    /\ parsed' = parse(written)
    /\ phase' = "text_parsed"
    /\ UNCHANGED <<extVars, doc, written, rewritten, edit, parseVars, fixVars, tokVars, runVars>>

TextNext == TextParse

SpecText == TextInit /\ [][TextNext]_vars

(* What the texts mean, stated without the parser *)

LastIndexOf(items, k) ==
    CHOOSE i \in 1..Len(items) :
        /\ items[i].key = k
        /\ \A j \in 1..Len(items) : items[j].key = k => j <= i

IsFirstOccurrence(items, i) == \A j \in 1..(i - 1) : items[j].key # items[i].key

RECURSIVE LastWins(_)
RECURSIVE LastWinsFrom(_, _)
\* The dictionary an item list denotes: each key once, at the place of its
\* first occurrence, with the value of its last occurrence.
LastWinsFrom(items, i) ==
    IF i > Len(items) THEN <<>>
    ELSE (IF IsFirstOccurrence(items, i)
          THEN LET v == items[LastIndexOf(items, items[i].key)].val
               IN <<[key |-> items[i].key,
                     val |-> IF v.tag = "dict" THEN DictValue(LastWins(v.items)) ELSE v]>>
          ELSE <<>>)
         \o LastWinsFrom(items, i + 1)

LastWins(items) == LastWinsFrom(items, 1)

RECURSIVE LineCount(_)
\* The number of lines the writer's layout gives an item list: one per
\* scalar, and key, '{', body and '}' per section (an empty body is one
\* empty line).
LineCount(items) ==
    IF items = <<>> THEN 0
    ELSE (IF Head(items).val.tag = "dict"
          THEN 3 + (IF Head(items).val.items = <<>> THEN 1
                    ELSE LineCount(Head(items).val.items))
          ELSE 1)
         + LineCount(Tail(items))

RECURSIVE Prefix(_, _)
\* The items, complete or still open, that the first n lines of the layout
\* hold: a section counts once its '{' line is in.
Prefix(items, n) ==
    IF items = <<>> \/ n <= 0 THEN <<>>
    ELSE LET it == Head(items)
         IN IF it.val.tag # "dict"
            THEN <<it>> \o Prefix(Tail(items), n - 1)
            ELSE IF n = 1 THEN <<>>
            ELSE <<[key |-> it.key, val |-> DictValue(Prefix(it.val.items, n - 2))]>>
                 \o Prefix(Tail(items), n - LineCount(<<it>>))

\* The number of sections open after the first n lines.
OpenSections(ls, n) ==
    Cardinality({i \in 1..n : Strip(ls[i]) = <<"{">>})
    - Cardinality({i \in 1..n : Strip(ls[i]) = <<"}">>})

RECURSIVE EntriesPresent(_, _)
\* Every entry of dictionary `want` is in dictionary `got` with its value.
EntriesPresent(want, got) ==
    \A i \in 1..Len(want) :
        /\ DictHas(got, want[i].key)
        /\ LET v == DictGet(got, want[i].key)
           IN IF want[i].val.tag = "dict"
              THEN v.tag = "dict" /\ EntriesPresent(want[i].val.items, v.items)
              ELSE v = want[i].val

----------------------------------------------------------------------------
(* Files: VDFParser.read_file and VDFParser.write_file *)

\* read_manifest / read_library_folders: open() raises when the file is
\* missing, otherwise the parsed content is returned.
ReadFile(file) ==
    [raised |-> ~file.exists,
     data |-> IF file.exists THEN parse(file.content) ELSE EmptyDict]

\* Mutant of WriteFile: the file is opened for appending.
WriteFile_Append(data, file, outcome) ==
    IF outcome = "ok"
    THEN [ok |-> TRUE, file |-> FileOf(file.content \o write(data, 0))]
    ELSE [ok |-> FALSE, file |-> file]

\* write_manifest / write_library_folders -> success.  open(path, 'w') may
\* fail and leave the file alone, or succeed (which empties the file) and the
\* write may then fail; every failure is reported as False.
WriteFile(data, file, outcome) ==
    IF outcome = "ok"
    THEN [ok |-> TRUE, file |-> FileOf(write(data, 0))]
    ELSE IF outcome = "open_fails"
    THEN [ok |-> FALSE, file |-> file]
    ELSE [ok |-> FALSE, file |-> FileOf(<<>>)]

IOOutcomes == {"ok", "open_fails", "write_fails"}

\* VDFParser.write_file(data, file_path) for any value of data: write()
\* raises on a value that has no items(), before the file is opened, and
\* every exception is turned into False.
write_file(data, file, outcome) ==
    IF data.tag # "dict" THEN [ok |-> FALSE, file |-> file]
    ELSE WriteFile(data.items, file, outcome)

----------------------------------------------------------------------------
(* SteamFixer._fix_staging_folder and SteamFixer._remove_dead_libraries *)

AppStateKey == <<"A", "p", "p", "S", "t", "a", "t", "e">>
StagingFolderKey == <<"S", "t", "a", "g", "i", "n", "g", "F", "o", "l", "d", "e", "r">>
LibraryFoldersKey == <<"l", "i", "b", "r", "a", "r", "y", "f", "o", "l", "d", "e", "r", "s">>

\* GameIssue.expected_value, which the scanner always sets to '0'.
ExpectedValue == <<"0">>

\* `x in s` for two strings.
IsSubstring(x, s) ==
    \E i \in 0..(Len(s) - Len(x)) : SubSeq(s, i + 1, i + Len(x)) = x

\* The try block of _fix_staging_folder after the dry-run check: the new
\* manifest file, and whether the handler counted a fix.
FixStagingOutcome(file, outcome) ==
    LET read == ReadFile(file)
        data == read.data
        app == IF DictHas(data, AppStateKey) THEN DictGet(data, AppStateKey)
               ELSE DictValue(EmptyDict)
    IN IF read.raised THEN [fixed |-> FALSE, file |-> file]
       ELSE IF DictHas(data, AppStateKey) /\ app.tag # "dict"
       THEN \* item assignment on a str or a number raises TypeError
            [fixed |-> FALSE, file |-> file]
       ELSE LET edited ==
                    IF DictHas(data, AppStateKey)
                    THEN DictSet(data, AppStateKey,
                                 DictValue(DictSet(app.items, StagingFolderKey,
                                                   StrValue(ExpectedValue))))
                    ELSE data
                w == WriteFile(edited, file, outcome)
            IN [fixed |-> w.ok, file |-> w.file]

\* _fix_staging_folder(issue)
FixStagingFolder ==
    /\ phase = "fix_staging"
    /\ LET out == IF dry_run THEN [fixed |-> TRUE, file |-> manifest]
                  ELSE FixStagingOutcome(manifest, io)
       IN /\ manifest' = out.file
          /\ fixed_count' = IF out.fixed THEN fixed_count + 1 ELSE fixed_count
          /\ failed_count' = IF out.fixed THEN failed_count ELSE failed_count + 1
          /\ returned' = IF out.fixed THEN "True" ELSE "False"
    /\ phase' = "staging_done"
    /\ UNCHANGED <<extVars, manifest_before, library_vdf, library_before, dead_ids, io,
                   dry_run, rtVars, parseVars, tokVars, runVars>>

RECURSIVE RemoveIds(_, _)
\* The loop over dead_libraries on library_data['libraryfolders']: whether it
\* raised, and the section left.  `in` on a number raises; `in` on a str is a
\* substring test and the `del` that follows a hit raises.
RemoveIds(folders, ids) ==
    IF ids = <<>> THEN [raised |-> FALSE, value |-> folders]
    ELSE IF folders.tag = "dict"
    THEN RemoveIds(IF DictHas(folders.items, Head(ids))
                   THEN DictValue(DictDel(folders.items, Head(ids)))
                   ELSE folders,
                   Tail(ids))
    ELSE IF folders.tag = "str"
    THEN IF IsSubstring(Head(ids), folders.text)
         THEN [raised |-> TRUE, value |-> folders]
         ELSE RemoveIds(folders, Tail(ids))
    ELSE [raised |-> TRUE, value |-> folders]

\* The try block of _remove_dead_libraries after the dry-run check.
RemoveDeadOutcome(file, ids, outcome) ==
    LET read == ReadFile(file)
        data == read.data
        removed == IF DictHas(data, LibraryFoldersKey)
                   THEN RemoveIds(DictGet(data, LibraryFoldersKey), ids)
                   ELSE [raised |-> FALSE, value |-> DictValue(EmptyDict)]
    IN IF read.raised \/ removed.raised THEN [fixed |-> FALSE, file |-> file]
       ELSE LET edited == IF DictHas(data, LibraryFoldersKey)
                          THEN DictSet(data, LibraryFoldersKey, removed.value)
                          ELSE data
                w == WriteFile(edited, file, outcome)
            IN [fixed |-> w.ok, file |-> w.file]

\* _remove_dead_libraries(dead_libraries)
RemoveDeadLibraries ==
    /\ phase = "fix_library"
    /\ IF dead_ids = <<>>
       THEN \* `if not dead_libraries: return True`
            /\ returned' = "True"
            /\ UNCHANGED <<extVars, library_vdf, fixed_count, failed_count>>
       ELSE LET out == IF dry_run THEN [fixed |-> TRUE, file |-> library_vdf]
                       ELSE RemoveDeadOutcome(library_vdf, dead_ids, io)
            IN /\ library_vdf' = out.file
               /\ fixed_count' = IF out.fixed THEN fixed_count + 1 ELSE fixed_count
               /\ failed_count' = IF out.fixed THEN failed_count ELSE failed_count + 1
               /\ returned' = IF out.fixed THEN "True" ELSE "False"
    /\ phase' = "library_done"
    /\ UNCHANGED <<extVars, library_before, manifest, manifest_before, dead_ids, io,
                   dry_run, rtVars, parseVars, tokVars, runVars>>

----------------------------------------------------------------------------
(* SpecFix: one handler of the fixer on one file *)

NameItem == [key |-> <<"n", "a", "m", "e">>, val |-> StrValue(<<"E", "x", "a", "m", "p", "l", "e", SPACE, "G", "a", "m", "e">>)]
StagingItem(t) == [key |-> StagingFolderKey, val |-> StrValue(t)]
UserConfigItem ==
    [key |-> <<"U", "s", "e", "r", "C", "o", "n", "f", "i", "g">>,
     val |-> DictValue(<<[key |-> <<"l", "a", "n", "g", "u", "a", "g", "e">>, val |-> StrValue(<<"e", "n", "g", "l", "i", "s", "h">>)]>>)]
OtherItem == [key |-> <<"a">>, val |-> StrValue(<<"x">>)]

\* The AppState sections of the manifests: StagingFolder absent, "2" or "0",
\* before or after the name, with or without a nested section after it.
AppStateBodies ==
    {(IF first THEN st ELSE <<>>) \o <<NameItem>> \o (IF first THEN <<>> ELSE st)
        \o (IF nested THEN <<UserConfigItem>> ELSE <<>>) :
        st \in {<<>>, <<StagingItem(<<"2">>)>>, <<StagingItem(<<"0">>)>>},
        first \in BOOLEAN, nested \in BOOLEAN}

\* The manifests: AppState a section (alone or followed by another root
\* entry), AppState a scalar, AppState missing.
ManifestDicts ==
    {<<[key |-> AppStateKey, val |-> DictValue(b)]>> \o tail :
        b \in AppStateBodies, tail \in {<<>>, <<OtherItem>>}}
    \cup {<<[key |-> AppStateKey, val |-> StrValue(<<"x">>)]>>,
          <<[key |-> AppStateKey, val |-> StrValue(<<"5">>)]>>,
          <<OtherItem>>,
          <<>>}

\* A comment line, as a hand-edited file may start with.
CommentHeader(on) == IF on THEN <<"/", "/", SPACE, "c", NL>> ELSE <<>>

ManifestFiles ==
    {FileOf(CommentHeader(c) \o write(d, 0)) : d \in ManifestDicts, c \in BOOLEAN}
    \cup {NoFile}

\* The entry of library `id` in libraryfolders.vdf: a path, and for some
\* libraries an empty label and an apps section.
LibraryBody(id) ==
    <<[key |-> <<"p", "a", "t", "h">>, val |-> StrValue(<<"/", "l", id>>)]>>
    \o (IF id = "0" THEN <<[key |-> <<"l", "a", "b", "e", "l">>, val |-> StrValue(<<>>)]>> ELSE <<>>)
    \o (IF id # "1"
        THEN <<[key |-> <<"a", "p", "p", "s">>,
                val |-> DictValue(<<[key |-> <<"7", "3", "0">>,
                                     val |-> StrValue(<<"1", "5">>)]>>)]>>
        ELSE <<>>)

LibraryItem(id) == [key |-> <<id>>, val |-> DictValue(LibraryBody(id))]

LibraryOrders ==
    {<<"0">>, <<"0", "1">>, <<"1", "0">>, <<"0", "1", "2">>, <<"0", "2", "1">>}

LibraryDicts ==
    {<<[key |-> LibraryFoldersKey,
        val |-> DictValue([i \in 1..Len(order) |-> LibraryItem(order[i])])]>> \o tail :
        order \in LibraryOrders, tail \in {<<>>, <<OtherItem>>}}
    \cup {<<[key |-> LibraryFoldersKey, val |-> StrValue(<<"x", "1", "y">>)]>>,
          <<[key |-> LibraryFoldersKey, val |-> StrValue(<<"1", "2">>)]>>,
          <<OtherItem>>}

LibraryFiles ==
    {FileOf(CommentHeader(c) \o write(d, 0)) : d \in LibraryDicts, c \in BOOLEAN}
    \cup {NoFile}

\* The library_id of the dead libraries handed to _remove_dead_libraries.
DeadIdLists ==
    {<<>>, <<<<"1">>>>, <<<<"2">>>>, <<<<"1">>, <<"2">>>>, <<<<"2">>, <<"1">>>>}

FixInit ==
    /\ \/ /\ phase = "fix_staging"
          /\ manifest \in ManifestFiles
          /\ manifest_before = manifest
          /\ IdleLibrary
       \/ /\ phase = "fix_library"
          /\ library_vdf \in LibraryFiles
          /\ library_before = library_vdf
          /\ dead_ids \in DeadIdLists
          /\ IdleManifest
    /\ io \in IOOutcomes
    /\ dry_run \in BOOLEAN
    /\ fixed_count = 0 /\ failed_count = 0 /\ returned = "none"
    /\ IdleRT /\ IdleText /\ IdleParse /\ IdleTok /\ IdleRun /\ IdleExt

FixNext == FixStagingFolder \/ RemoveDeadLibraries

SpecFix == FixInit /\ [][FixNext]_vars

----------------------------------------------------------------------------
(* Claims about write and parse (SpecRT) *)

\* C1 (as claimed): parse(write(d)) is structurally equal to d for every
\* dictionary d of string scalars and sections: same keys, same order, same
\* nesting, same scalar text.
C1_RoundTrip ==
    phase \in {"rt_parsed", "rt_done"} => parsed = doc

\* C2 (as claimed): write(parse(write(d))) is the same text as write(d).
C2_DoubleWrite ==
    phase = "rt_done" => rewritten = written

----------------------------------------------------------------------------
(* Claims about damaged and repeated text (SpecText) *)

\* The inserted line is one the claim covers: any three-token line, a '{'
\* that does not follow a bare key line, a '}' at the root level.
CoveredInsert ==
    LET ls == LayoutLines(doc)
    IN \/ edit.kind = "three"
       \/ /\ edit.kind = "open"
          /\ ~(edit.at < Len(ls) /\ Strip(ls[edit.at + 1]) = <<"{">>)
       \/ /\ edit.kind = "close"
          /\ OpenSections(ls, edit.at) = 0

\* C5 (as claimed): with a three-token line, a '{' without pending key or a
\* '}' without open section inserted anywhere, every valid entry before and
\* after it is still in the parsed document with its value.
C5_MalformedLineTolerated ==
    (phase = "text_parsed" /\ CoveredInsert) => EntriesPresent(LastWins(doc), parsed)

RECURSIVE OneEntryLastValue(_, _)
\* For every key of the item list, the dictionary holds exactly one entry and
\* its value is that of the key's last occurrence, at every nesting level.
OneEntryLastValue(items, dict) ==
    \A k \in DictKeys(items) :
        /\ Cardinality({i \in 1..Len(dict) : dict[i].key = k}) = 1
        /\ LET last == items[LastIndexOf(items, k)].val
               got == DictGet(dict, k)
           IN IF last.tag = "dict"
              THEN got.tag = "dict" /\ OneEntryLastValue(last.items, got.items)
              ELSE got = last

C8_UnterminatedSection ==
    (/\ phase = "text_parsed"
     /\ edit.kind = "truncate"
     /\ OpenSections(LayoutLines(doc), edit.at) >= 1)
    => parsed = LastWins(Prefix(doc, edit.at))

\* C8 witness: a text cut inside a section nested in a section, after an
\* entry of the inner section.
C8_Witness ==
    /\ phase = "text_parsed"
    /\ edit.kind = "truncate"
    /\ OpenSections(LayoutLines(doc), edit.at) = 2
    /\ Len(parsed) = 1
    /\ parsed[1].val.tag = "dict"
    /\ Len(parsed[1].val.items) = 1
    /\ parsed[1].val.items[1].val.tag = "dict"
    /\ Len(parsed[1].val.items[1].val.items) = 1

----------------------------------------------------------------------------
(* Claims about _parse_section (SpecParse) *)

\* The line the running activation is looking at, stripped.
CurrentLine == Strip(lines[TopFrame(pstate).i + 1])

\* The running activation is about to execute a loop pass.
InLoop == phase = "parsing" /\ ~pstate.done /\ TopFrame(pstate).i < Len(lines)

\* The loop pass tokenizes the line (it is not blank, a comment or a '}').
Tokenizing ==
    /\ InLoop
    /\ CurrentLine # <<>>
    /\ ~StartsWith(CurrentLine, <<"/", "/">>)
    /\ ~IsClose(CurrentLine)

\* The loop pass takes the two-token branch.
AtPairLine ==
    /\ Tokenizing
    /\ Len(tokenize(CurrentLine)) = 2
    /\ tokenize(CurrentLine)[1] # <<"{">>

\* C3 (as claimed): a line of exactly two tokens (key, value) stores under
\* key a scalar whose content is the original text of value, with no numeric
\* coercion.
C3_ValueKeptAsText ==
    [][AtPairLine =>
          LET key == tokenize(CurrentLine)[1]
              value == tokenize(CurrentLine)[2]
              after == TopFrame(pstate').result
          IN DictHas(after, key) /\ DictGet(after, key) = StrValue(value)]_vars

\* What is left to do: lines not yet passed, and activations not yet returned.
Measure(st) == 2 * (Len(lines) - Cursor(st)) + Depth(st)

\* C9: _parse_section terminates for every list of lines and start index:
\* each loop pass advances the cursor by at least one line, each recursive
\* call starts at a larger index than the caller's current line, each
\* returned index is beyond the activation's start index or is the number of
\* lines, and every step strictly reduces a natural-number measure, so the
\* outermost call returns.
C9_ParseTerminates ==
    /\ phase \in {"parsing", "parse_done"} => Measure(pstate) >= 0
    /\ phase = "parsing" =>
          LET next == ParseStep(lines, pstate)
          IN /\ ~pstate.done
             /\ Measure(next) < Measure(pstate)
             /\ InLoop => Cursor(next) >= Cursor(pstate) + 1
             /\ Depth(next) > Depth(pstate) =>
                   /\ TopFrame(next).start_idx > TopFrame(pstate).i
                   /\ TopFrame(next).i = TopFrame(next).start_idx
             /\ Depth(next) < Depth(pstate) =>
                   \/ Cursor(next) > TopFrame(pstate).start_idx
                   \/ Cursor(next) = Len(lines)
    /\ phase = "parse_done" =>
          /\ pstate.done
          /\ pstate.ret.idx > start_idx \/ pstate.ret.idx = Len(lines)

\* C9 witness: a parse from a later start index that recursed into a section,
\* returned from it and finished at the end of the lines.
C9_Witness ==
    /\ phase = "parse_done"
    /\ start_idx > 0
    /\ pstate.ret.idx = Len(lines)
    /\ \E i \in 1..Len(pstate.ret.result) : pstate.ret.result[i].val.tag = "dict"

----------------------------------------------------------------------------
(* Claims about the fixer's edits (SpecFix) *)

\* What the code reads from a file's content.
Before(file) == parse(file.content)

\* The key resolves to a section of the dictionary.
HasSection(d, k) == DictHas(d, k) /\ DictGet(d, k).tag = "dict"

\* The manifest's AppState.StagingFolder was set, written and is read again.
StagingEdited ==
    /\ phase = "staging_done"
    /\ ~dry_run
    /\ returned = "True"
    /\ manifest_before.exists
    /\ HasSection(Before(manifest_before), AppStateKey)

\* The dictionary with d[section][k] set to v and nothing else changed.
WithField(d, section, k, v) ==
    DictSet(d, section, DictValue(DictSet(DictGet(d, section).items, k, v)))

\* C4 (as claimed): after StagingFolder is set to the replacement text and
\* the manifest is written and parsed again, the field equals the replacement
\* text and every other field, at every level, has the key, place and value
\* it had in the file before.
C4_ScalarEditKeepsRest ==
    StagingEdited =>
        parse(manifest.content) =
            WithField(Before(manifest_before), AppStateKey, StagingFolderKey,
                      StrValue(ExpectedValue))

\* The prefix of the path AppState.StagingFolder does not resolve to a
\* section of the manifest: AppState is missing or is a scalar.
PrefixUnresolved ==
    /\ phase = "staging_done"
    /\ ~dry_run
    /\ manifest_before.exists
    /\ ~HasSection(Before(manifest_before), AppStateKey)

\* C7 (as claimed): a mutation whose path prefix is missing or is a scalar
\* fails: the item counts as failed, not as fixed, and the file is untouched.
C7_PathNotFoundFails ==
    PrefixUnresolved =>
        /\ returned = "False"
        /\ failed_count = 1 /\ fixed_count = 0
        /\ manifest = manifest_before

\* The items of a section without those whose key is among ids.
RECURSIVE Without(_, _)
Without(items, ids) ==
    IF items = <<>> THEN <<>>
    ELSE (IF \E i \in 1..Len(ids) : ids[i] = Head(items).key THEN <<>>
          ELSE <<Head(items)>>)
         \o Without(Tail(items), ids)

\* The dictionary with the section under k replaced, everything else in place.
WithSection(d, k, items) ==
    [i \in 1..Len(d) |-> IF d[i].key = k THEN [key |-> k, val |-> DictValue(items)]
                         ELSE d[i]]

\* _remove_dead_libraries ran for real on a file whose libraryfolders is a section.
DeleteRan ==
    /\ phase = "library_done"
    /\ ~dry_run
    /\ dead_ids # <<>>
    /\ library_before.exists
    /\ HasSection(Before(library_before), LibraryFoldersKey)

\* C10: removing keys from the libraryfolders section, then writing and
\* parsing, gives a section without the removed keys in which every other
\* key keeps its place and content; removing an absent key changes nothing
\* and is not an error (the removal counts as fixed whenever the write works).
C10_DeleteKeepsSiblings ==
    DeleteRan =>
        /\ io = "ok" => returned = "True" /\ fixed_count = 1 /\ failed_count = 0
        /\ returned = "True" =>
              LET before == Before(library_before)
                  folders == DictGet(before, LibraryFoldersKey).items
              IN parse(library_vdf.content) =
                     WithSection(before, LibraryFoldersKey, Without(folders, dead_ids))

\* C10 witness: of two dead ids one is in the section, before a sibling that
\* stays, and one is absent; the sibling after it is still there.
C10_Witness ==
    /\ DeleteRan
    /\ returned = "True"
    /\ Len(dead_ids) = 2
    /\ LET folders == DictGet(Before(library_before), LibraryFoldersKey).items
           after == DictGet(parse(library_vdf.content), LibraryFoldersKey).items
       IN /\ Len(folders) = 2
          /\ DictHas(folders, <<"1">>) /\ ~DictHas(folders, <<"2">>)
          /\ folders[1].key = <<"1">>
          /\ after = <<folders[2]>>

----------------------------------------------------------------------------
(* Claims on _tokenize (SpecTok) *)

\* The end of the run of characters outside quotes that starts at p: it stops
\* before a blank and before a quote that opens a quoted substring.
OutsideRunEnd(l, p) ==
    LET stops == {i \in (p + 1)..Len(l) :
                     \/ IsSpace(l[i])
                     \/ l[i] = QUOTE /\ IndexOf(l, QUOTE, i + 1) # 0}
    IN IF stops = {} THEN Len(l) ELSE MinOf(stops) - 1

RECURSIVE ClaimedTokens(_, _)
\* The tokens of a line from position p on, read left to right: the content of
\* each quoted substring, empty or not, and each run outside quotes.
ClaimedTokens(l, p) ==
    IF p > Len(l) THEN <<>>
    ELSE IF IsSpace(l[p]) THEN ClaimedTokens(l, p + 1)
    ELSE LET close == IF l[p] = QUOTE THEN IndexOf(l, QUOTE, p + 1) ELSE 0
         IN IF close # 0
            THEN <<SubSeq(l, p + 1, close - 1)>> \o ClaimedTokens(l, close + 1)
            ELSE <<SubSeq(l, p, OutsideRunEnd(l, p))>>
                 \o ClaimedTokens(l, OutsideRunEnd(l, p) + 1)

\* C11: _tokenize returns, left to right, one token for every quoted substring
\* (its content verbatim, also when empty) and one for every maximal run of
\* non-blank characters outside quotes; a blank line gives no token.
C11_TokensAsClaimed ==
    phase = "tok_done" => tok_tokens = ClaimedTokens(tok_line, 1)

----------------------------------------------------------------------------
(* Claims on the returned document (SpecParse) *)

RECURSIVE AllEntries(_)
\* The entries of a document, those of its sections at every depth included.
AllEntries(d) ==
    {d[i] : i \in 1..Len(d)}
    \cup UNION {AllEntries(d[i].val.items) : i \in {j \in 1..Len(d) : d[j].val.tag = "dict"}}

\* The lines the parse was given to read, by position, and their tokens.
ReadLines == (start_idx + 1)..Len(lines)
TokensAt(j) == tokenize(Strip(lines[j]))

\* Line j is a scalar line of key k; line j is a bare key k and a '{' line
\* comes somewhere after it.
IsPairLineOf(j, k) == Len(TokensAt(j)) = 2 /\ TokensAt(j)[1] = k
IsOpenedKeyLineOf(j, k) ==
    /\ TokensAt(j) = <<k>>
    /\ \E m \in ReadLines : m > j /\ Len(TokensAt(m)) >= 1 /\ TokensAt(m)[1] = <<"{">>

\* C12: in the returned document, at every level, every key is a non-empty
\* string, every scalar comes from a key-value line and every section from a
\* bare key line that a '{' line follows: a bare key that no '{' line follows
\* is not in the document.
C12_NoDanglingKey ==
    phase = "parse_done" =>
        \A e \in AllEntries(pstate.ret.result) :
            /\ e.key # <<>>
            /\ e.val.tag \in {"str", "int", "float", "dict"}
            /\ IF e.val.tag = "dict"
               THEN \E j \in ReadLines : IsOpenedKeyLineOf(j, e.key)
               ELSE \E j \in ReadLines : IsPairLineOf(j, e.key)

\* A parse that read a bare key no '{' follows, together with a line whose
\* key is written as the empty quoted string, and returned other entries.
C12_Witness ==
    /\ phase = "parse_done"
    /\ start_idx = 0
    /\ \E j \in ReadLines :
          /\ TokensAt(j) = <<<<"a">>>>
          /\ ~IsOpenedKeyLineOf(j, <<"a">>)
    /\ \E j \in ReadLines : lines[j][1] = QUOTE /\ lines[j][2] = QUOTE /\ Len(lines[j]) > 2
    /\ ~DictHas(pstate.ret.result, <<"a">>)
    /\ DictHas(pstate.ret.result, <<"b">>)

----------------------------------------------------------------------------
(* Claims on VDFParser.write (SpecRT) *)

Quoted(s) == <<QUOTE>> \o s \o <<QUOTE>>

RECURSIVE CanonicalLines(_, _)
\* The lines of the canonical rendering of d at nesting level n, entry by
\* entry in insertion order: every line starts with n tabs, a section's
\* entries lie between its '{' and '}' lines one level deeper.
CanonicalLines(d, n) ==
    IF d = <<>> THEN <<>>
    ELSE LET e == Head(d)
         IN (IF e.val.tag = "dict"
             THEN <<Tabs(n) \o Quoted(e.key), Tabs(n) \o <<"{">>>>
                  \o CanonicalLines(e.val.items, n + 1)
                  \o <<Tabs(n) \o <<"}">>>>
             ELSE <<Tabs(n) \o Quoted(e.key) \o <<TAB, TAB>> \o Quoted(FormatValue(e.val))>>)
            \o CanonicalLines(Tail(d), n)

\* C14: write(d) is the canonical rendering of d: its lines are the canonical
\* lines, joined by newlines with no newline at the end.
C14_CanonicalRendering ==
    phase # "rt_start" => written = JoinLines(CanonicalLines(doc, 0))

----------------------------------------------------------------------------
(* SpecSave: VDFParser.write_file on any data, over any old file *)

\* The largest number of entries of a saved document.
MaxSaveNodes == 2

\* What the file holds before the call: nothing, an empty text, a text that
\* is no VDF, the rendering of a small document.
SaveOldFiles ==
    {NoFile, FileOf(<<>>), FileOf(<<"}", NL, "z", SPACE, "z", SPACE, "z", NL>>)}
    \cup {FileOf(write(d, 0)) : d \in RTDicts(1)}

\* The data handed to write_file: a document, or a value that is none.
SaveData(n) == {DictValue(d) : d \in RTDicts(n)} \cup {StrValue(<<"x">>)}

SaveInit ==
    /\ phase = "save_start"
    /\ doc \in SaveData(MaxSaveNodes)
    /\ manifest \in SaveOldFiles
    /\ manifest_before = manifest
    /\ io \in IOOutcomes
    /\ returned = "none"
    /\ dry_run = FALSE /\ fixed_count = 0 /\ failed_count = 0
    /\ rewritten = <<>>
    /\ IdleLibrary /\ IdleText /\ IdleParse /\ IdleTok /\ IdleRun /\ IdleExt

\* ok = VDFParser.write_file(doc, path)
SaveFile ==
    /\ phase = "save_start"
    /\ LET out == write_file(doc, manifest, io)
       IN /\ manifest' = out.file
          /\ returned' = IF out.ok THEN "True" ELSE "False"
    /\ phase' = "save_done"
    /\ UNCHANGED <<extVars, manifest_before, library_vdf, library_before, dead_ids, io,
                   dry_run, fixed_count, failed_count, rtVars, parseVars, tokVars, runVars>>

SaveNext == SaveFile

SpecSave == SaveInit /\ [][SaveNext]_vars

(* Claims on write_file (SpecSave) *)

\* C15: write_file always returns a value; when it returns True the file
\* holds exactly write(data), whatever it held before; when serialization or
\* the file operations fail it returns False.
C15_SaveOverwrites ==
    phase = "save_done" =>
        /\ returned \in {"True", "False"}
        /\ returned = "True" =>
               /\ doc.tag = "dict"
               /\ manifest = FileOf(write(doc.items, 0))
        /\ (doc.tag # "dict" \/ io # "ok") => returned = "False"

\* A successful save over a file whose old text is not part of the new one.
C15_Witness ==
    /\ phase = "save_done"
    /\ returned = "True"
    /\ manifest_before.exists
    /\ manifest_before.content # <<>>
    /\ manifest.content # <<>>
    /\ ~IsSubstring(manifest_before.content, manifest.content)

----------------------------------------------------------------------------
(* SpecName: get_app_name_from_manifest on parsed manifests *)

NameKey == <<"n", "a", "m", "e">>

\* d.get(k) of a dict.
DictGetOrNone(d, k) == IF DictHas(d, k) THEN DictGet(d, k) ELSE NoneValue

\* Mutant of get_app_name_from_manifest: without the except clause the
\* AttributeError of a scalar AppState leaves the function.
get_app_name_unguarded(manifest_content) ==
    LET app == IF DictHas(manifest_content, AppStateKey)
               THEN DictGet(manifest_content, AppStateKey)
               ELSE DictValue(EmptyDict)
    IN IF app.tag # "dict"
       THEN [tag |-> "raised", text |-> <<>>, num |-> 0, items |-> <<>>]
       ELSE DictGetOrNone(app.items, NameKey)

\* manifest_content.get('AppState', {}).get('name'); the AttributeError of a
\* value without get() is caught and None returned.
get_app_name_from_manifest(manifest_content) ==
    LET app == IF DictHas(manifest_content, AppStateKey)
               THEN DictGet(manifest_content, AppStateKey)
               ELSE DictValue(EmptyDict)
    IN IF app.tag # "dict" THEN NoneValue
       ELSE DictGetOrNone(app.items, NameKey)

\* The name entries of the manifests: none, a text, a number-like text, a
\* section.
NameItems ==
    {<<>>, <<NameItem>>,
     <<[key |-> NameKey, val |-> StrValue(<<"2", "0", "4", "8">>)]>>,
     <<[key |-> NameKey, val |-> DictValue(<<OtherItem>>)]>>}

\* The AppState sections: any name entry, before or after a StagingFolder
\* entry or alone, with or without a nested section after it.
NameAppStates ==
    {(IF first THEN st ELSE <<>>) \o nm \o (IF first THEN <<>> ELSE st)
        \o (IF nested THEN <<UserConfigItem>> ELSE <<>>) :
        nm \in NameItems,
        st \in {<<>>, <<StagingItem(<<"2">>)>>, <<StagingItem(<<"0">>)>>},
        first \in BOOLEAN, nested \in BOOLEAN}

\* The manifests as documents: AppState a section, a scalar or missing.
NameManifests ==
    {<<[key |-> AppStateKey, val |-> DictValue(b)]>> \o tail :
        b \in NameAppStates, tail \in {<<>>, <<OtherItem>>}}
    \cup {<<[key |-> AppStateKey, val |-> StrValue(<<"x">>)]>>,
          <<[key |-> AppStateKey, val |-> StrValue(<<"5">>)]>>,
          <<OtherItem, [key |-> NameKey, val |-> StrValue(<<"x">>)]>>,
          <<>>}

NameInit ==
    /\ phase = "name_start"
    /\ doc \in NameManifests
    /\ \E c \in BOOLEAN : written = CommentHeader(c) \o write(doc, 0)
    /\ parsed = <<>>
    /\ app_name = NoneValue
    /\ edit = NoEdit /\ rewritten = <<>>
    /\ tok_line = <<>> /\ tok_tokens = <<>>
    /\ IdleParse /\ IdleFix /\ IdleRun /\ IdleExt

\* manifest_content = read_manifest(path)
NameRead ==
    /\ phase = "name_start"
    /\ parsed' = parse(written)
    /\ phase' = "name_read"
    /\ UNCHANGED <<extVars, doc, written, rewritten, edit, parseVars, fixVars, tokVars, runVars>>

\* name = get_app_name_from_manifest(manifest_content)
NameGet ==
    /\ phase = "name_read"
    /\ app_name' = get_app_name_from_manifest(parsed)
    /\ phase' = "name_done"
    /\ UNCHANGED <<extVars, tok_line, tok_tokens, rtVars, parseVars, fixVars, runVars>>

NameNext == NameRead \/ NameGet

SpecName == NameInit /\ [][NameNext]_vars

(* Claims on get_app_name_from_manifest (SpecName) *)

\* C16: the lookup returns None when the manifest lacks 'AppState', when
\* 'AppState' is a scalar and when the 'AppState' section lacks 'name', and
\* the value stored under AppState.name otherwise.
C16_NestedLookup ==
    phase = "name_done" =>
        IF /\ DictHas(parsed, AppStateKey)
           /\ DictGet(parsed, AppStateKey).tag = "dict"
           /\ DictHas(DictGet(parsed, AppStateKey).items, NameKey)
        THEN app_name = DictGet(DictGet(parsed, AppStateKey).items, NameKey)
        ELSE app_name = NoneValue

\* A lookup whose intermediate value is a scalar.
C16_Witness ==
    /\ phase = "name_done"
    /\ DictHas(parsed, AppStateKey)
    /\ DictGet(parsed, AppStateKey).tag \in {"str", "int"}
    /\ app_name = NoneValue

----------------------------------------------------------------------------
(* Claims on the numeric coercion (SpecParse) *)

\* The value text is a decimal integer literal; it is numeric syntax.
IsIntegerLiteral(value) == value # <<>> /\ AllDigits(value)
IsNumericSyntax(value) == IntAccepts(value) \/ FloatAccepts(value)

\* C17: a two-token line whose value is a decimal integer literal stores that
\* integer under the key, and a value that is not numeric syntax is stored as
\* its text.
C17_NumericCoercion ==
    [][AtPairLine =>
          LET key == tokenize(CurrentLine)[1]
              value == tokenize(CurrentLine)[2]
              after == TopFrame(pstate').result
          IN /\ DictHas(after, key)
             /\ IsIntegerLiteral(value) =>
                    DictGet(after, key) = IntValue(StrToNat(value))
             /\ ~IsNumericSyntax(value) =>
                    DictGet(after, key) = StrValue(value)]_vars

\* A parse that stored, inside a section, an integer for a numeric value
\* and a text for another value.
C17_Witness ==
    /\ phase = "parse_done"
    /\ DictHas(pstate.ret.result, <<"a">>)
    /\ DictGet(pstate.ret.result, <<"a">>).tag = "dict"
    /\ LET section == DictGet(pstate.ret.result, <<"a">>).items
       IN /\ DictHas(section, <<"b">>) /\ DictGet(section, <<"b">>) = IntValue(7)
          /\ DictHas(section, <<"a">>) /\ DictGet(section, <<"a">>) = StrValue(<<"x">>)

----------------------------------------------------------------------------
(* SteamScanner: scan() and its four passes *)

\* The largest number of installed games.
MaxGames == 2

\* The app ids of the manifests, in the order glob yields the files.
AllAppIds == <<<<"1">>, <<"2">>, <<"3">>>>
AppIds == SubSeq(AllAppIds, 1, MaxGames)

\* scanner.library_vdf_path and steamapps/appmanifest_<app_id>.acf.
LibraryVdfPath == <<"libraryfolders", <<>>>>
ManifestPath(app_id) == <<"appmanifest", app_id>>
Paths == {LibraryVdfPath} \cup {ManifestPath(AppIds[i]) : i \in 1..Len(AppIds)}

\* get_app_id_from_filename: the file name without 'appmanifest_' and '.acf'.
get_app_id_from_filename(path) == path[2]

PathKey == <<"p", "a", "t", "h">>
UnknownName == StrValue(<<"U", "n", "k", "n", "o", "w", "n">>)

RECURSIVE safe_path(_)
\* safe_path: every pair of backslashes becomes a '/'.
safe_path(text) ==
    IF Len(text) < 2 THEN text
    ELSE IF text[1] = "\\" /\ text[2] = "\\"
    THEN <<"/">> \o safe_path(SubSeq(text, 3, Len(text)))
    ELSE <<text[1]>> \o safe_path(Tail(text))

\* lib_path.exists(): the path of library id is /l<id>.
PathExists(path, ds) == \E id \in ds : path = <<"/", "l">> \o id

RECURSIVE ScanLibraryItems(_, _, _)
\* The loop of _scan_libraries over library_folders.items(): an entry that is
\* a section with a 'path' becomes a LibraryInfo; a path that is no str has
\* no replace() and the AttributeError leaves the loop.
ScanLibraryItems(items, ds, acc) ==
    IF items = <<>> THEN [raised |-> FALSE, libraries |-> acc]
    ELSE LET lib_id == Head(items).key
             lib_data == Head(items).val
         IN IF lib_data.tag = "dict" /\ DictHas(lib_data.items, PathKey)
            THEN LET p == DictGet(lib_data.items, PathKey)
                 IN IF p.tag # "str" THEN [raised |-> TRUE, libraries |-> acc]
                    ELSE ScanLibraryItems(Tail(items), ds,
                             DictSet(acc, lib_id,
                                     [library_id |-> lib_id,
                                      path |-> safe_path(p.text),
                                      exists |-> PathExists(safe_path(p.text), ds)]))
            ELSE ScanLibraryItems(Tail(items), ds, acc)

\* _scan_libraries()
scan_libraries(d, ds) ==
    LET read == ReadFile(d[LibraryVdfPath])
        library_folders == IF DictHas(read.data, LibraryFoldersKey)
                           THEN DictGet(read.data, LibraryFoldersKey)
                           ELSE DictValue(EmptyDict)
    IN IF read.raised THEN [raised |-> TRUE, libraries |-> <<>>]
       ELSE IF library_folders.tag # "dict"
       THEN \* a str or a number has no items()
            [raised |-> TRUE, libraries |-> <<>>]
       ELSE ScanLibraryItems(library_folders.items, ds, <<>>)

RECURSIVE ScanManifestFiles(_, _, _)
\* The loop of _scan_manifests over the manifest files that exist: a manifest
\* whose AppState is no section raises inside the try and is left out.
ScanManifestFiles(apps, d, acc) ==
    IF apps = <<>> THEN acc
    ELSE LET manifest_path == ManifestPath(Head(apps))
             app_id == get_app_id_from_filename(manifest_path)
             manifest_data == ReadFile(d[manifest_path]).data
             app_state == IF DictHas(manifest_data, AppStateKey)
                          THEN DictGet(manifest_data, AppStateKey)
                          ELSE DictValue(EmptyDict)
         IN IF ~d[manifest_path].exists \/ app_state.tag # "dict"
            THEN ScanManifestFiles(Tail(apps), d, acc)
            ELSE ScanManifestFiles(Tail(apps), d,
                     DictSet(acc, app_id,
                             [app_id |-> app_id,
                              name |-> IF DictHas(app_state.items, NameKey)
                                       THEN DictGet(app_state.items, NameKey)
                                       ELSE UnknownName,
                              manifest_path |-> manifest_path,
                              staging_folder |-> DictGetOrNone(app_state.items,
                                                               StagingFolderKey)]))

\* _scan_manifests()
scan_manifests(d) == ScanManifestFiles(AppIds, d, <<>>)

\* str(value)
PyStr(v) ==
    IF v.tag \in {"str", "int", "float"} THEN FormatValue(v)
    ELSE IF v.tag = "dict" THEN <<"{", ".", ".", ".", "}">>
    ELSE <<"N", "o", "n", "e">>

\* The GameIssue _detect_issues creates for a game whose staging library is
\* target_lib_info.
NewIssue(game_info, target_lib_info) ==
    [app_id |-> game_info.app_id,
     game_name |-> game_info.name,
     manifest_path |-> game_info.manifest_path,
     issue_type |-> IF ~target_lib_info.exists THEN "missing_staging_library"
                    ELSE "staging_folder_mismatch",
     current_value |-> game_info.staging_folder,
     expected_value |-> ExpectedValue,
     severity |-> IF ~target_lib_info.exists THEN "critical" ELSE "warning"]

RECURSIVE DetectIssues(_, _, _)
\* The loop of _detect_issues over games.items().
DetectIssues(gs, libs, acc) ==
    IF gs = <<>> THEN acc
    ELSE LET game_info == Head(gs).val
             staging_folder == game_info.staging_folder
             target_library == PyStr(staging_folder)
         IN IF /\ staging_folder # NoneValue
               /\ staging_folder # StrValue(<<"0">>)
               /\ DictHas(libs, target_library)
            THEN DetectIssues(Tail(gs), libs,
                     Append(acc, NewIssue(game_info, DictGet(libs, target_library))))
            ELSE DetectIssues(Tail(gs), libs, acc)

\* _detect_issues()
detect_issues(gs, libs) == DetectIssues(gs, libs, <<>>)

\* An item of a downloading folder: the directory named after an app (with
\* the number of files below it) or a depot_<app>_... file of library lib.
DownloadItem(lib, app, kind, files) ==
    [lib |-> lib, app |-> app, kind |-> kind, files |-> files]

RECURSIVE ScanDownloadItems(_, _, _, _)
\* The loop of _scan_orphaned_downloads over downloading_path.iterdir() of
\* one library that exists.
ScanDownloadItems(items, lib_id, gs, acc) ==
    IF items = <<>> THEN acc
    ELSE LET item == Head(items)
         IN IF /\ item.lib = lib_id
               /\ AllDigits(item.app)
               /\ DictHas(gs, item.app) /\ lib_id # <<"0">>
            THEN ScanDownloadItems(Tail(items), lib_id, gs,
                     Append(acc, [library_id |-> lib_id, app_id |-> item.app,
                                  kind |-> item.kind, files |-> item.files]))
            ELSE ScanDownloadItems(Tail(items), lib_id, gs, acc)

RECURSIVE ScanOrphaned(_, _, _, _)
\* The loop of _scan_orphaned_downloads over libraries.items().
ScanOrphaned(libs, gs, dl, acc) ==
    IF libs = <<>> THEN acc
    ELSE IF ~Head(libs).val.exists THEN ScanOrphaned(Tail(libs), gs, dl, acc)
    ELSE ScanOrphaned(Tail(libs), gs, dl,
                      ScanDownloadItems(dl, Head(libs).key, gs, acc))

\* _scan_orphaned_downloads()
scan_orphaned_downloads(libs, gs, dl) == ScanOrphaned(libs, gs, dl, <<>>)

----------------------------------------------------------------------------
(* SteamFixer.fix_all and its helpers on the scanner's findings *)

RECURSIVE DeadLibraryIds(_)
\* [lib for lib in scanner.libraries.values() if not lib.exists], by id.
DeadLibraryIds(libs) ==
    IF libs = <<>> THEN <<>>
    ELSE (IF Head(libs).val.exists THEN <<>> ELSE <<Head(libs).key>>)
         \o DeadLibraryIds(Tail(libs))

\* Mutant of collect_files_to_backup: the manifests are left out.
collect_library_only(iss, libs) ==
    IF DeadLibraryIds(libs) # <<>> THEN {LibraryVdfPath} ELSE {}

\* _collect_files_to_backup()
collect_files_to_backup(iss, libs) ==
    (IF DeadLibraryIds(libs) # <<>> THEN {LibraryVdfPath} ELSE {})
    \cup {iss[k].manifest_path : k \in 1..Len(iss)}

\* What create_backup does: "ok" copies every listed file that exists,
\* "fails" is an exception out of mkdir, copy2 or the manifest dump.
BackupOutcomes == {"ok", "fails"}

\* create_backup(files): the copies it holds.
create_backup(files, d) ==
    [made |-> TRUE,
     files |-> [p \in {q \in files : d[q].exists} |-> d[p]]]

\* Mutant of StagingResult: the dry-run check is gone.
StagingResult_Always(file, outcome, dry) == FixStagingOutcome(file, outcome)

\* _fix_staging_folder(issue) on the issue's manifest file.
StagingResult(file, outcome, dry) ==
    IF dry THEN [fixed |-> TRUE, file |-> file]
    ELSE FixStagingOutcome(file, outcome)

\* _remove_dead_libraries(dead_libraries) on libraryfolders.vdf.
DeadResult(file, ids, outcome, dry) ==
    IF dry THEN [fixed |-> TRUE, file |-> file]
    ELSE RemoveDeadOutcome(file, ids, outcome)

\* What deleting the files of an orphaned download does: "ok" deletes them,
\* "fails" is an exception out of every unlink or rmtree, which the inner
\* try turns into a warning.
DeleteOutcomes == {"ok", "fails"}

RECURSIVE DeleteFiles(_, _)
\* The files of orphaned are deleted: the files below an app directory (the
\* directory stays), or the depot file itself.
DeleteFiles(dl, orphaned) ==
    IF dl = <<>> THEN <<>>
    ELSE LET item == Head(dl)
         IN IF item.lib = orphaned.library_id /\ item.app = orphaned.app_id
               /\ item.kind = orphaned.kind
            THEN (IF item.kind = "dir"
                  THEN <<[item EXCEPT !.files = 0]>>
                  ELSE <<>>) \o DeleteFiles(Tail(dl), orphaned)
            ELSE <<item>> \o DeleteFiles(Tail(dl), orphaned)

\* _clean_orphaned_download(orphaned): always counted as fixed.
CleanResult(dl, orphaned, outcome, dry) ==
    IF dry \/ outcome = "fails" THEN dl ELSE DeleteFiles(dl, orphaned)

----------------------------------------------------------------------------
(* SpecRun: a scan of an installation, then fix_all on what it found *)

\* libraryfolders.vdf: the configured library ids in file order, or a
\* 'libraryfolders' that is no section.
RunLibraryOrders == {<<"0">>, <<"0", "1">>, <<"0", "1", "2">>, <<"1">>}

RunLibraryDict(order) ==
    <<[key |-> LibraryFoldersKey,
       val |-> DictValue([i \in 1..Len(order) |-> LibraryItem(order[i])])]>>

ConfiguredIds(order) == {<<order[i]>> : i \in 1..Len(order)}

\* The sets of library paths that can exist: library 0 is the installation
\* that is scanned, every other configured library may be gone.
ExistingDirs(order) ==
    {ds \in SUBSET ConfiguredIds(order) : <<"0">> \in ConfiguredIds(order) => <<"0">> \in ds}

\* The manifest of a game: no file, StagingFolder "0", StagingFolder "1", no
\* StagingFolder, an AppState that is no section.
RunManifestFiles ==
    {NoFile,
     FileOf(write(<<[key |-> AppStateKey,
                     val |-> DictValue(<<NameItem, StagingItem(<<"0">>)>>)]>>, 0)),
     FileOf(write(<<[key |-> AppStateKey,
                     val |-> DictValue(<<NameItem, StagingItem(<<"1">>), UserConfigItem>>)]>>, 0)),
     FileOf(write(<<[key |-> AppStateKey, val |-> DictValue(<<NameItem>>)]>>, 0)),
     FileOf(write(<<[key |-> AppStateKey, val |-> StrValue(<<"x">>)]>>, 0))}

\* What another program can leave in place of a manifest between the scan
\* and the fix: nothing, a file without AppState, an AppState that is no
\* section.
EditedManifestFiles ==
    {NoFile,
     FileOf(write(<<OtherItem>>, 0)),
     FileOf(write(<<[key |-> AppStateKey, val |-> StrValue(<<"x">>)]>>, 0))}

\* The downloading folders: empty, an app directory and a depot file of
\* another app in library 1, an app directory in library 0.
RunDownloads ==
    {<<>>,
     <<DownloadItem(<<"1">>, <<"1">>, "dir", 1), DownloadItem(<<"1">>, <<"2">>, "file", 1)>>,
     <<DownloadItem(<<"0">>, <<"1">>, "dir", 1)>>}

RunInit ==
    /\ phase = "run_start"
    /\ \/ \E order \in RunLibraryOrders :
             /\ dirs \in ExistingDirs(order)
             /\ \E ms \in [Paths \ {LibraryVdfPath} -> RunManifestFiles] :
                   disk = [p \in Paths |->
                              IF p = LibraryVdfPath
                              THEN FileOf(write(RunLibraryDict(order), 0))
                              ELSE ms[p]]
       \/ /\ dirs = {}
          /\ \E ms \in [Paths \ {LibraryVdfPath} -> RunManifestFiles] :
                disk = [p \in Paths |->
                           IF p = LibraryVdfPath
                           THEN FileOf(write(<<[key |-> LibraryFoldersKey,
                                                val |-> StrValue(<<"x">>)]>>, 0))
                           ELSE ms[p]]
    /\ downloads \in RunDownloads
    /\ dry_run \in BOOLEAN
    /\ fixed_count = 0 /\ failed_count = 0
    /\ IdleScanner /\ IdleFixer
    /\ IdleManifest /\ IdleLibrary /\ io = "ok" /\ returned = "none"
    /\ IdleRT /\ IdleText /\ IdleParse /\ IdleTok /\ IdleExt

fixedVars == <<manifest, library_vdf, manifest_before, library_before, dead_ids,
               io, returned, rtVars, parseVars, tokVars>>

\* scanner.scan(): the four passes; an exception of _scan_libraries ends it.
Scan ==
    /\ phase = "run_start"
    /\ \E libs \in {scan_libraries(disk, dirs)}, gs \in {scan_manifests(disk)} :
          IF libs.raised
          THEN /\ phase' = "scan_failed"
               /\ UNCHANGED <<extVars, libraries, games, issues, orphaned_downloads>>
          ELSE /\ libraries' = libs.libraries
               /\ games' = gs
               /\ issues' = detect_issues(gs, libs.libraries)
               /\ orphaned_downloads' = scan_orphaned_downloads(libs.libraries, gs, downloads)
               /\ phase' = "scanned"
    /\ UNCHANGED <<extVars, disk, dirs, downloads, cursor, backup, disk_before, log, summary,
                   dry_run, fixed_count, failed_count, fixedVars>>

\* Another program replaces the manifest of the first reported game before
\* the fix.
EnvEdit ==
    /\ phase = "scanned"
    /\ issues # <<>>
    /\ \E f \in EditedManifestFiles :
          disk' = [disk EXCEPT ![issues[1].manifest_path] = f]
    /\ phase' = "edited"
    /\ UNCHANGED <<extVars, dirs, downloads, libraries, games, issues, orphaned_downloads,
                   cursor, backup, disk_before, log, summary,
                   dry_run, fixed_count, failed_count, fixedVars>>

\* Where fix_all goes on: the next issue, else the next orphaned download,
\* else the dead libraries if there are any, else the return statement.
DeadStage ==
    IF DeadLibraryIds(libraries) # <<>>
    THEN [phase |-> "fix_dead", cursor |-> 0]
    ELSE [phase |-> "fix_return", cursor |-> 0]

OrphansFrom(k) ==
    IF k <= Len(orphaned_downloads)
    THEN [phase |-> "fix_orphans", cursor |-> k]
    ELSE DeadStage

IssuesFrom(k) ==
    IF k <= Len(issues) THEN [phase |-> "fix_issues", cursor |-> k]
    ELSE OrphansFrom(1)

LogEntry(kind, target, outcome, fixed) ==
    [kind |-> kind, target |-> target, outcome |-> outcome, fixed |-> fixed]

\* The outcomes of the file operations of one handler: none of them is
\* reached in a dry run.
WriteOutcomes == IF dry_run THEN {"ok"} ELSE IOOutcomes

\* fix_all(), up to the first loop: the backup of the files to be modified.
\* An exception of create_backup leaves fix_all.
FixAllBackup ==
    /\ phase \in {"scanned", "edited"}
    /\ disk_before' = [disk |-> disk, downloads |-> downloads]
    /\ \E backup_files \in {collect_files_to_backup(issues, libraries)} :
          IF dry_run \/ backup_files = {}
          THEN /\ backup' = NoBackup
               /\ phase' = IssuesFrom(1).phase
               /\ cursor' = IssuesFrom(1).cursor
               /\ summary' = summary
          ELSE \E outcome \in BackupOutcomes :
                  IF outcome = "ok"
                  THEN /\ backup' = create_backup(backup_files, disk)
                       /\ phase' = IssuesFrom(1).phase
                       /\ cursor' = IssuesFrom(1).cursor
                       /\ summary' = summary
                  ELSE /\ backup' = NoBackup
                       /\ phase' = "fix_raised"
                       /\ cursor' = cursor
                       /\ summary' = [NoSummary EXCEPT !.raised = TRUE]
    /\ UNCHANGED <<extVars, disk, dirs, downloads, libraries, games, issues,
                   orphaned_downloads, log, dry_run, fixed_count, failed_count,
                   fixedVars>>

\* One pass of the loop over scanner.issues: _fix_staging_folder(issue).
FixIssue ==
    /\ phase = "fix_issues"
    /\ LET issue == issues[cursor]
           file == disk[issue.manifest_path]
       IN \E outcome \in WriteOutcomes :
             \E out \in {IF issue.issue_type \in {"staging_folder_mismatch",
                                                   "missing_staging_library"}
                          THEN StagingResult(file, outcome, dry_run)
                          ELSE [fixed |-> TRUE, file |-> file]} :
                /\ disk' = [disk EXCEPT ![issue.manifest_path] = out.file]
                /\ fixed_count' = IF out.fixed THEN fixed_count + 1 ELSE fixed_count
                /\ failed_count' = IF out.fixed THEN failed_count ELSE failed_count + 1
                /\ log' = Append(log, LogEntry("staging", issue.manifest_path,
                                               outcome, out.fixed))
    /\ phase' = IssuesFrom(cursor + 1).phase
    /\ cursor' = IssuesFrom(cursor + 1).cursor
    /\ UNCHANGED <<extVars, dirs, downloads, libraries, games, issues, orphaned_downloads,
                   backup, disk_before, summary, dry_run, fixedVars>>

\* Mutant of FixOrphan: a download whose files could not be deleted is
\* counted neither as fixed nor as failed.
FixOrphan_Uncounted ==
    /\ phase = "fix_orphans"
    /\ \E outcome \in (IF dry_run THEN {"ok"} ELSE DeleteOutcomes) :
          /\ downloads' = CleanResult(downloads, orphaned_downloads[cursor],
                                      outcome, dry_run)
          /\ log' = Append(log, LogEntry("orphan", cursor, outcome, TRUE))
          /\ fixed_count' = IF outcome = "ok" THEN fixed_count + 1 ELSE fixed_count
    /\ phase' = OrphansFrom(cursor + 1).phase
    /\ cursor' = OrphansFrom(cursor + 1).cursor
    /\ UNCHANGED <<extVars, disk, dirs, libraries, games, issues, orphaned_downloads,
                   backup, disk_before, summary, dry_run, failed_count, fixedVars>>

\* One pass of the loop over scanner.orphaned_downloads:
\* _clean_orphaned_download(orphaned).
FixOrphan ==
    /\ phase = "fix_orphans"
    /\ \E outcome \in (IF dry_run THEN {"ok"} ELSE DeleteOutcomes) :
          /\ downloads' = CleanResult(downloads, orphaned_downloads[cursor],
                                      outcome, dry_run)
          /\ log' = Append(log, LogEntry("orphan", cursor, outcome, TRUE))
    /\ fixed_count' = fixed_count + 1
    /\ phase' = OrphansFrom(cursor + 1).phase
    /\ cursor' = OrphansFrom(cursor + 1).cursor
    /\ UNCHANGED <<extVars, disk, dirs, libraries, games, issues, orphaned_downloads,
                   backup, disk_before, summary, dry_run, failed_count, fixedVars>>

\* _remove_dead_libraries(dead_libraries), called when there is a dead library.
FixDead ==
    /\ phase = "fix_dead"
    /\ LET file == disk[LibraryVdfPath]
       IN \E outcome \in WriteOutcomes :
             \E out \in {DeadResult(file, DeadLibraryIds(libraries), outcome, dry_run)} :
                /\ disk' = [disk EXCEPT ![LibraryVdfPath] = out.file]
                /\ fixed_count' = IF out.fixed THEN fixed_count + 1 ELSE fixed_count
                /\ failed_count' = IF out.fixed THEN failed_count ELSE failed_count + 1
                /\ log' = Append(log, LogEntry("dead", LibraryVdfPath,
                                               outcome, out.fixed))
    /\ phase' = "fix_return"
    /\ cursor' = 0
    /\ UNCHANGED <<extVars, dirs, downloads, libraries, games, issues, orphaned_downloads,
                   backup, disk_before, summary, dry_run, fixedVars>>

\* return {'fixed': ..., 'failed': ..., 'dry_run': ...}
FixReturn ==
    /\ phase = "fix_return"
    /\ summary' = [returned |-> TRUE, raised |-> FALSE, fixed |-> fixed_count,
                   failed |-> failed_count, dry_run |-> dry_run]
    /\ phase' = "fix_done"
    /\ UNCHANGED <<extVars, disk, dirs, downloads, libraries, games, issues,
                   orphaned_downloads, cursor, backup, disk_before, log,
                   dry_run, fixed_count, failed_count, fixedVars>>

RunNext ==
    Scan \/ EnvEdit \/ FixAllBackup \/ FixIssue \/ FixOrphan \/ FixDead \/ FixReturn

SpecRun == RunInit /\ [][RunNext]_vars

----------------------------------------------------------------------------
(* Claims on the scanner (SpecRun) *)

\* The text of a scalar line of key k and value v, as it stands in a file.
ScalarLineText(k, v) == Quoted(k) \o <<TAB, TAB>> \o Quoted(v)

\* The manifest of the game holds the line "StagingFolder" "0".
StagingIsZero(app_id) ==
    /\ disk[ManifestPath(app_id)].exists
    /\ IsSubstring(ScalarLineText(StagingFolderKey, <<"0">>),
                   disk[ManifestPath(app_id)].content)

HasIssue(app_id) == \E k \in 1..Len(issues) : issues[k].app_id = app_id

\* C20: after a scan, a game whose manifest holds "StagingFolder" "0" has no
\* staging_folder_mismatch and no missing_staging_library issue, whatever
\* libraries are configured.
C20_ZeroStagingNeverReported ==
    phase = "scanned" =>
        \A i \in 1..Len(AppIds) : StagingIsZero(AppIds[i]) => ~HasIssue(AppIds[i])

----------------------------------------------------------------------------
\* Failure isolation in fix_all.

\* The failures of one staging fix that the handler is to record: the
\* manifest cannot be read, the path AppState does not lead to a section,
\* or the file cannot be written.
StagingFailure(entry) ==
    \/ ~disk_before.disk[entry.target].exists
    \/ LET data == parse(disk_before.disk[entry.target].content)
       IN ~DictHas(data, AppStateKey) \/ DictGet(data, AppStateKey).tag # "dict"
    \/ entry.outcome # "ok"

\* Every issue, every orphaned download and the dead libraries were handled,
\* in this order.
AllProcessed ==
    /\ Len(log) = Len(issues) + Len(orphaned_downloads)
                  + (IF DeadLibraryIds(libraries) # <<>> THEN 1 ELSE 0)
    /\ \A k \in 1..Len(issues) :
          log[k].kind = "staging" /\ log[k].target = issues[k].manifest_path
    /\ \A k \in 1..Len(orphaned_downloads) :
          log[Len(issues) + k].kind = "orphan" /\ log[Len(issues) + k].target = k
    /\ DeadLibraryIds(libraries) # <<>> => log[Len(log)].kind = "dead"

\* The summary counts the handled items, the failed ones as failed.
SummaryCounts ==
    /\ summary.returned
    /\ summary.failed = Cardinality({k \in 1..Len(log) : ~log[k].fixed})
    /\ summary.fixed = Cardinality({k \in 1..Len(log) : log[k].fixed})

\* A staging fix is recorded as failed exactly when it failed.
FailuresRecorded ==
    \A k \in 1..Len(issues) : log[k].fixed <=> ~StagingFailure(log[k])

\* No failure of one item ends the run or skips another item.
ProcessingContinues ==
    (phase = "fix_done" /\ ~dry_run) => (AllProcessed /\ SummaryCounts)

\* C13: when fix_all has returned from a real run, every issue, every
\* orphaned download and the dead-library removal were processed, each
\* staging fix that failed (manifest unreadable, path error, write failure)
\* is recorded as failed and no other, and the summary carries the counts.
C13_FailureIsolation ==
    (phase = "fix_done" /\ ~dry_run)
        => (AllProcessed /\ FailuresRecorded /\ SummaryCounts)

----------------------------------------------------------------------------
\* Dry run.

\* The phases of fix_all after its backup step.
FixPhases == {"fix_issues", "fix_orphans", "fix_dead", "fix_return", "fix_done"}

\* The items fix_all goes over.
ItemCount ==
    Len(issues) + Len(orphaned_downloads)
    + (IF DeadLibraryIds(libraries) # <<>> THEN 1 ELSE 0)

\* C18: in a dry run fix_all leaves every manifest, libraryfolders.vdf and
\* every downloaded file as they were when it started, makes no backup, and
\* returns dry_run = True with every item counted as fixed and none as failed.
C18_DryRunChangesNothing ==
    (dry_run /\ phase \in FixPhases) =>
        /\ disk = disk_before.disk
        /\ downloads = disk_before.downloads
        /\ backup = NoBackup
        /\ phase = "fix_done" =>
              /\ summary.returned /\ summary.dry_run
              /\ summary.fixed = ItemCount
              /\ summary.failed = 0

C18_Witness ==
    /\ dry_run /\ phase = "fix_done"
    /\ Len(issues) > 0 /\ Len(orphaned_downloads) > 0
    /\ DeadLibraryIds(libraries) # <<>>
    /\ summary.fixed = ItemCount

----------------------------------------------------------------------------
\* Backup before write.

\* The file at path p was copied by create_backup as it was when fix_all
\* started.
BackedUp(p) ==
    /\ backup.made
    /\ p \in DOMAIN backup.files
    /\ backup.files[p] = disk_before.disk[p]

\* C19: in a real run, every file that a handler of fix_all has rewritten
\* or went on to rewrite (the manifest of an issue, libraryfolders.vdf for
\* the dead libraries) has its content from before fix_all in the backup,
\* and when create_backup raised no file was rewritten or deleted.
C19_BackupBeforeWrite ==
    (~dry_run /\ phase \in FixPhases \cup {"fix_raised"}) =>
        /\ \A p \in DOMAIN disk : disk[p] # disk_before.disk[p] => BackedUp(p)
        /\ \A k \in 1..Len(log) :
              (log[k].kind \in {"staging", "dead"}
               /\ disk_before.disk[log[k].target].exists)
                  => BackedUp(log[k].target)
        /\ phase = "fix_raised" =>
              /\ disk = disk_before.disk
              /\ downloads = disk_before.downloads
              /\ log = <<>>

C19_Witness ==
    /\ ~dry_run /\ phase = "fix_done"
    /\ disk[LibraryVdfPath] # disk_before.disk[LibraryVdfPath]
    /\ \E i \in 1..Len(issues) :
          /\ disk[issues[i].manifest_path] # disk_before.disk[issues[i].manifest_path]
          /\ BackedUp(issues[i].manifest_path)
    /\ BackedUp(LibraryVdfPath)

----------------------------------------------------------------------------
\* Counting.

\* C27: when fix_all has returned, in a dry run or a real one and whatever
\* failed, fixed + failed is the number of issues plus the number of
\* orphaned downloads plus one when a configured library does not exist.
C27_CountedExactlyOnce ==
    phase = "fix_done" =>
        /\ summary.returned
        /\ summary.fixed + summary.failed = ItemCount
        /\ summary.fixed = fixed_count /\ summary.failed = failed_count

C27_Witness ==
    /\ phase = "fix_done" /\ ~dry_run
    /\ Len(issues) > 0 /\ Len(orphaned_downloads) > 0
    /\ DeadLibraryIds(libraries) # <<>>
    /\ summary.failed > 0 /\ summary.fixed > 0
    /\ \E k \in 1..Len(log) : log[k].kind = "orphan" /\ log[k].outcome = "fails"
    /\ summary.fixed + summary.failed = ItemCount

----------------------------------------------------------------------------
(* SpecScan: one scan of an installation, over more StagingFolder values *)

\* The texts written as the value of StagingFolder.
ScanStagingTexts == {<<"0">>, <<"1">>, <<"2">>, <<"0", "1">>}

\* The manifest of a game: no file, no StagingFolder, or one of the texts.
ScanManifests ==
    {NoFile,
     FileOf(write(<<[key |-> AppStateKey, val |-> DictValue(<<NameItem>>)]>>, 0))}
    \cup {FileOf(write(<<[key |-> AppStateKey,
                          val |-> DictValue(<<NameItem, StagingItem(t)>>)]>>, 0)) :
          t \in ScanStagingTexts}

\* The configured libraries, each of which may exist or not.
ScanLibraryOrders == {<<"0">>, <<"0", "1">>, <<"1">>, <<"0", "2">>}

ScanInit ==
    /\ phase = "run_start"
    /\ \E order \in ScanLibraryOrders :
          /\ dirs \in SUBSET ConfiguredIds(order)
          /\ \E ms \in [Paths \ {LibraryVdfPath} -> ScanManifests] :
                disk = [p \in Paths |->
                           IF p = LibraryVdfPath
                           THEN FileOf(write(RunLibraryDict(order), 0))
                           ELSE ms[p]]
    /\ downloads = <<>>
    /\ dry_run = FALSE
    /\ fixed_count = 0 /\ failed_count = 0
    /\ IdleScanner /\ IdleFixer
    /\ IdleManifest /\ IdleLibrary /\ io = "ok" /\ returned = "none"
    /\ IdleRT /\ IdleText /\ IdleParse /\ IdleTok /\ IdleExt

ScanNext == Scan

SpecScan == ScanInit /\ [][ScanNext]_vars

\* The manifest of the game holds the line "StagingFolder" "<t>".
StagingIs(app_id, t) ==
    /\ disk[ManifestPath(app_id)].exists
    /\ IsSubstring(ScalarLineText(StagingFolderKey, t),
                   disk[ManifestPath(app_id)].content)

IssuesOf(app_id) == {k \in 1..Len(issues) : issues[k].app_id = app_id}

\* The library of id t, as the scan recorded it.
Configured(t) == \E k \in 1..Len(libraries) : libraries[k].key = t

\* The one issue of the game is the one its staging library calls for.
ClassifiedAs(app_id, t) ==
    /\ Cardinality(IssuesOf(app_id)) = 1
    /\ \A k \in IssuesOf(app_id) :
          /\ issues[k].expected_value = <<"0">>
          /\ IF DictGet(libraries, t).exists
             THEN /\ issues[k].issue_type = "staging_folder_mismatch"
                  /\ issues[k].severity = "warning"
             ELSE /\ issues[k].issue_type = "missing_staging_library"
                  /\ issues[k].severity = "critical"

\* C24: after a scan, a game whose StagingFolder names a configured library
\* has exactly one issue, with expected_value '0', critical and
\* missing_staging_library when the library's path does not exist, warning
\* and staging_folder_mismatch when it exists; a game whose StagingFolder
\* names no configured library has no issue.
C24_SeverityClassification ==
    phase = "scanned" =>
        \A i \in 1..Len(AppIds) : \A t \in ScanStagingTexts :
            StagingIs(AppIds[i], t) =>
                IF Configured(t) THEN ClassifiedAs(AppIds[i], t)
                ELSE IssuesOf(AppIds[i]) = {}

----------------------------------------------------------------------------
(* SpecConverge: scan, fix_all, and a scan by the next run of the program *)

\* The installations of SpecRun with at most one downloading folder.
ConvergeInit ==
    /\ phase = "run_start"
    /\ \E order \in {<<"0">>, <<"0", "1">>, <<"1">>} :
          /\ dirs \in ExistingDirs(order)
          /\ \E ms \in [Paths \ {LibraryVdfPath} -> RunManifestFiles] :
                disk = [p \in Paths |->
                           IF p = LibraryVdfPath
                           THEN FileOf(write(RunLibraryDict(order), 0))
                           ELSE ms[p]]
    /\ downloads \in {<<>>, <<DownloadItem(<<"1">>, <<"1">>, "dir", 1)>>}
    /\ dry_run \in BOOLEAN
    /\ fixed_count = 0 /\ failed_count = 0
    /\ IdleScanner /\ IdleFixer
    /\ IdleManifest /\ IdleLibrary /\ io = "ok" /\ returned = "none"
    /\ IdleRT /\ IdleText /\ IdleParse /\ IdleTok /\ IdleExt

\* scan() of a new SteamScanner on the installation fix_all has left.
Rescan ==
    /\ phase = "fix_done"
    /\ \E libs \in {scan_libraries(disk, dirs)}, gs \in {scan_manifests(disk)} :
          IF libs.raised
          THEN /\ phase' = "rescan_failed"
               /\ UNCHANGED <<extVars, libraries, games, issues, orphaned_downloads>>
          ELSE /\ libraries' = libs.libraries
               /\ games' = gs
               /\ issues' = detect_issues(gs, libs.libraries)
               /\ orphaned_downloads' = scan_orphaned_downloads(libs.libraries, gs, downloads)
               /\ phase' = "rescanned"
    /\ UNCHANGED <<extVars, disk, dirs, downloads, cursor, backup, disk_before, log, summary,
                   dry_run, fixed_count, failed_count, fixedVars>>

ConvergeNext ==
    Scan \/ FixAllBackup \/ FixIssue \/ FixOrphan \/ FixDead \/ FixReturn \/ Rescan

SpecConverge == ConvergeInit /\ [][ConvergeNext]_vars

\* Every manifest write of the run succeeded.
ManifestWritesSucceeded ==
    \A k \in 1..Len(log) : log[k].kind = "staging" => log[k].outcome = "ok"

\* The manifests of the games fix_all counted as fixed.
FixedManifests ==
    {log[k].target : k \in {j \in 1..Len(log) : log[j].kind = "staging" /\ log[j].fixed}}

\* C21: after a real fix_all in which every manifest write succeeded, the
\* next scan reports no staging issue for any game that was fixed.
C21_FixConverges ==
    (phase = "rescanned" /\ ~dry_run /\ ManifestWritesSucceeded) =>
        \A k \in 1..Len(issues) : issues[k].manifest_path \notin FixedManifests

----------------------------------------------------------------------------
(* SpecCli: one run of main() *)

\* Everything but cli.
notCliVars == <<phase, rtVars, parseVars, fixVars, tokVars, runVars, bm>>

\* The options of the command line, whether a Steam directory is found and
\* whether Steam runs; nothing is modified or confirmed yet.
CliInit ==
    /\ phase = "cli"
    /\ \E o \in [{"list_backups", "restore", "scan", "fix_all", "dry_run",
                  "steam_path", "steam_running"} -> BOOLEAN] :
          cli = [pc |-> "main", mode |-> "none",
                 list_backups |-> o["list_backups"], restore |-> o["restore"],
                 scan |-> o["scan"], fix_all |-> o["fix_all"],
                 dry_run |-> o["dry_run"], steam_path |-> o["steam_path"],
                 steam_running |-> o["steam_running"],
                 fixer_dry_run |-> FALSE, confirmed |-> FALSE,
                 modified |-> FALSE, exit |-> "none"]
    /\ bm = <<>>
    /\ IdleRT /\ IdleText /\ IdleParse /\ IdleFix /\ IdleTok /\ IdleRun

CliExit(code) == [cli EXCEPT !.pc = "exit", !.exit = code]

\* `if list_backups:` lists the backups and returns.
MainListBackups ==
    /\ cli.pc = "main" /\ cli.list_backups
    /\ cli' = CliExit("0")
    /\ UNCHANGED notCliVars

\* `if restore:` restore_backup copies the backed-up files over the
\* originals; it raises when the manifest is missing, or part way when a
\* backup file is missing.
MainRestore ==
    /\ cli.pc = "main" /\ ~cli.list_backups /\ cli.restore
    /\ \E outcome \in {"restored", "raised_part_way", "no_manifest"} :
          cli' = [CliExit(IF outcome = "restored" THEN "0" ELSE "1")
                     EXCEPT !.modified = (outcome # "no_manifest")]
    /\ UNCHANGED notCliVars

\* No --steam-path and no default installation.
MainNoSteamPath ==
    /\ cli.pc = "main" /\ ~cli.list_backups /\ ~cli.restore /\ ~cli.steam_path
    /\ cli' = CliExit("1")
    /\ UNCHANGED notCliVars

\* `if scan or fix_all or dry_run:` else interactive_mode(steam_path).
MainMode ==
    /\ cli.pc = "main" /\ ~cli.list_backups /\ ~cli.restore /\ cli.steam_path
    /\ cli' = [cli EXCEPT !.pc = "check",
                          !.mode = IF cli.scan \/ cli.fix_all \/ cli.dry_run
                                   THEN "batch" ELSE "interactive"]
    /\ UNCHANGED notCliVars

\* check_steam_running(): asks when Steam runs; False ends the run.
CheckSteamRunning ==
    /\ cli.pc = "check"
    /\ LET next == IF cli.mode = "batch" THEN "scan" ELSE "validate"
       IN IF cli.steam_running
          THEN \E answer \in BOOLEAN :
                  cli' = IF answer
                         THEN [cli EXCEPT !.pc = next, !.confirmed = TRUE]
                         ELSE CliExit("1")
          ELSE cli' = [cli EXCEPT !.pc = next]
    /\ UNCHANGED notCliVars

\* interactive_mode: validate_steam_directory(steam_path).
ValidateDirectory ==
    /\ cli.pc = "validate"
    /\ \E valid \in BOOLEAN :
          cli' = IF valid THEN [cli EXCEPT !.pc = "scan"] ELSE CliExit("1")
    /\ UNCHANGED notCliVars

\* scanner.scan() and what follows it: a failed scan and a scan without
\* issues end the run, --scan ends it, the interactive mode asks.
CliScan ==
    /\ cli.pc = "scan"
    /\ \E outcome \in {"raised", "no_issues", "issues"} :
          cli' = IF outcome = "raised" THEN CliExit("1")
                 ELSE IF outcome = "no_issues" THEN CliExit("0")
                 ELSE IF cli.mode = "interactive" THEN [cli EXCEPT !.pc = "choose"]
                 ELSE IF cli.scan THEN CliExit("0")
                 ELSE [cli EXCEPT !.pc = "fix", !.fixer_dry_run = cli.dry_run]
    /\ UNCHANGED notCliVars

\* The menu of interactive_mode.
Choose ==
    /\ cli.pc = "choose"
    /\ \E choice \in {"1", "2", "3", "4"} :
          cli' = IF choice \in {"2", "4"} THEN CliExit("0")
                 ELSE IF choice = "3"
                 THEN [cli EXCEPT !.pc = "fix", !.fixer_dry_run = TRUE]
                 ELSE [cli EXCEPT !.pc = "apply"]
    /\ UNCHANGED notCliVars

\* 'Apply fixes now?'
ConfirmApply ==
    /\ cli.pc = "apply"
    /\ \E answer \in BOOLEAN :
          cli' = IF answer THEN [cli EXCEPT !.pc = "fix", !.fixer_dry_run = FALSE]
                 ELSE CliExit("0")
    /\ UNCHANGED notCliVars

\* fixer.fix_all(): a real run rewrites or deletes files unless its backup
\* raised before the first handler; then main shows the counts.
CliFixAll ==
    /\ cli.pc = "fix"
    /\ \E outcome \in {"all_fixed", "some_failed", "backup_raised"} :
          cli' = [CliExit(IF outcome = "all_fixed" \/ cli.mode = "interactive"
                          THEN "0" ELSE "1")
                     EXCEPT !.modified = (~cli.fixer_dry_run
                                          /\ outcome # "backup_raised")]
    /\ UNCHANGED notCliVars

CliNext ==
    \/ MainListBackups \/ MainRestore \/ MainNoSteamPath \/ MainMode
    \/ CheckSteamRunning \/ ValidateDirectory \/ CliScan \/ Choose
    \/ ConfirmApply \/ CliFixAll

SpecCli == CliInit /\ [][CliNext]_vars

\* The fix modes keep the gate: they modify nothing while Steam runs
\* unless the user confirmed.
FixModesGated ==
    (phase = "cli" /\ cli.mode # "none" /\ cli.modified /\ cli.steam_running)
        => cli.confirmed

\* C26: no command modifies the configuration files while Steam is running
\* unless the user confirmed to continue.
C26_SteamRunningGate ==
    (phase = "cli" /\ cli.modified /\ cli.steam_running) => cli.confirmed

----------------------------------------------------------------------------
(* SpecBackup: BackupManager.create_backup and restore_backup on one
   backup directory *)

MaxClock == 1      \* the clock shows the seconds 0..MaxClock
MaxBackups == 2    \* create_backup calls in one behaviour
MaxFiles == 2      \* files in one list given to create_backup

\* Everything but bm.
notBmVars == <<phase, rtVars, parseVars, fixVars, tokVars, runVars, cli>>

\* Files as <<directory, file name>>: two share their name.
BackupPaths ==
    {<<"steamapps", "libraryfolders.vdf">>, <<"config", "libraryfolders.vdf">>,
     <<"steamapps", "appmanifest_1.acf">>}
BackupNames == {p[2] : p \in BackupPaths}
BackupContents == {"a", "b"}
Absent == "absent"

\* The lists create_backup is called with: distinct paths, in any order.
BackupLists ==
    {s \in UNION {[1..n -> BackupPaths] : n \in 0..MaxFiles} :
        \A i, j \in 1..Len(s) : i # j => s[i] # s[j]}

\* backup_dir / backup_id before create_backup made it.
NoBackupDir ==
    [exists |-> FALSE, files |-> [n \in BackupNames |-> Absent],
     has_manifest |-> FALSE, manifest |-> <<>>]

\* datetime.now().strftime("%Y%m%d_%H%M%S"): the clock to the second.
BackupId(clock) == clock

BackupInit ==
    /\ phase = "backup"
    /\ \E f \in [BackupPaths -> BackupContents \cup {Absent}] :
          bm = [clock |-> 0, files |-> f,
                store |-> [id \in 0..MaxClock |-> NoBackupDir],
                calls |-> <<>>, restored |-> <<>>]
    /\ cli = <<>>
    /\ IdleRT /\ IdleText /\ IdleParse /\ IdleFix /\ IdleTok /\ IdleRun

\* The loop of create_backup over files[k..]: a file that does not exist is
\* skipped, the others are copied to backup_path / file_path.name and get a
\* manifest entry.
RECURSIVE CopyFiles(_, _, _, _, _)
CopyFiles(list, k, id, dir, entries) ==
    IF k > Len(list) THEN [dir |-> dir, entries |-> entries]
    ELSE IF bm.files[list[k]] = Absent
    THEN CopyFiles(list, k + 1, id, dir, entries)
    ELSE CopyFiles(list, k + 1, id,
                   [dir EXCEPT !.files[list[k][2]] = bm.files[list[k]]],
                   Append(entries, [original_path |-> list[k],
                                    backup_path |-> <<id, list[k][2]>>]))

\* The contents of the listed files when create_backup is called.
AtBackupTime(list) ==
    [p \in BackupPaths |->
        IF \E i \in 1..Len(list) : list[i] = p THEN bm.files[p] ELSE Absent]

\* create_backup(files): mkdir(exist_ok=True), the copies, manifest.json
\* opened with 'w'; returns the id.
CreateBackup(list) ==
    /\ Len(bm.calls) < MaxBackups
    /\ LET id == BackupId(bm.clock)
           copied == CopyFiles(list, 1, id,
                               [bm.store[id] EXCEPT !.exists = TRUE], <<>>)
           dir == [copied.dir EXCEPT !.has_manifest = TRUE,
                                     !.manifest = copied.entries]
       IN bm' = [bm EXCEPT !.store[id] = dir,
                           !.calls = Append(@, [id |-> id, list |-> list,
                                                files |-> AtBackupTime(list),
                                                dir |-> dir]),
                           !.restored = <<>>]
    /\ UNCHANGED notBmVars

\* The loop of restore_backup over manifest.files[k..]: raises at the first
\* entry whose backup file is missing, copies the others over the originals.
RECURSIVE RestoreFiles(_, _, _)
RestoreFiles(entries, k, files) ==
    IF k > Len(entries) THEN [files |-> files, ok |-> TRUE]
    ELSE LET e == entries[k]
             content == bm.store[e.backup_path[1]].files[e.backup_path[2]]
         IN IF content = Absent THEN [files |-> files, ok |-> FALSE]
            ELSE RestoreFiles(entries, k + 1,
                              [files EXCEPT ![e.original_path] = content])

\* restore_backup(backup_id)
RestoreBackup(id) ==
    /\ IF ~bm.store[id].has_manifest
       THEN bm' = [bm EXCEPT !.restored = [id |-> id, ok |-> FALSE]]
       ELSE LET r == RestoreFiles(bm.store[id].manifest, 1, bm.files)
            IN bm' = [bm EXCEPT !.files = r.files,
                                !.restored = [id |-> id, ok |-> r.ok]]
    /\ UNCHANGED notBmVars

\* Steam, the fixer or the user writes a file.
ModifyFile(p, content) ==
    /\ bm.files[p] # content
    /\ bm' = [bm EXCEPT !.files[p] = content, !.restored = <<>>]
    /\ UNCHANGED notBmVars

\* A second passes.
Tick ==
    /\ bm.clock < MaxClock
    /\ bm' = [bm EXCEPT !.clock = @ + 1, !.restored = <<>>]
    /\ UNCHANGED notBmVars

BackupNext ==
    \/ \E list \in BackupLists : CreateBackup(list)
    \/ \E id \in 0..MaxClock : RestoreBackup(id)
    \/ \E p \in BackupPaths, c \in BackupContents : ModifyFile(p, c)
    \/ Tick

SpecBackup == BackupInit /\ [][BackupNext]_vars

\* The state right after restore_backup(id) returned True.
Restored(id) ==
    phase = "backup" /\ bm.restored # <<>> /\ bm.restored.id = id /\ bm.restored.ok

\* The files of call k that existed when create_backup was called.
BackedUpFiles(k) ==
    {bm.calls[k].list[i] : i \in 1..Len(bm.calls[k].list)}
        \ {p \in BackupPaths : bm.calls[k].files[p] = Absent}

\* Call k is the only one that returned its id.
IdNotReused(k) ==
    \A j \in 1..Len(bm.calls) : j # k => bm.calls[j].id # bm.calls[k].id

\* Call k was given no two files of the same name.
DistinctNames(k) ==
    \A p, q \in BackedUpFiles(k) : p # q => p[2] # q[2]

\* The round trip for the backups whose file names differ and whose id no
\* other call returned.
RoundTripDistinct ==
    phase = "backup" =>
        \A k \in 1..Len(bm.calls) :
            (Restored(bm.calls[k].id) /\ DistinctNames(k) /\ IdNotReused(k)) =>
                \A p \in BackedUpFiles(k) : bm.files[p] = bm.calls[k].files[p]

\* C25: after restore_backup with the id a create_backup call returned,
\* every file of that call has the content it had at backup time, whatever
\* happened to the files in between and also when two of them share a name.
C25_RoundTrip ==
    phase = "backup" =>
        \A k \in 1..Len(bm.calls) :
            (Restored(bm.calls[k].id) /\ IdNotReused(k)) =>
                \A p \in BackedUpFiles(k) : bm.files[p] = bm.calls[k].files[p]

\* An earlier backup is as its create_backup call left it, when the ids
\* of the calls differ.
KeptWhenIdsDiffer ==
    phase = "backup" =>
        \A k \in 1..Len(bm.calls) :
            IdNotReused(k) => bm.store[bm.calls[k].id] = bm.calls[k].dir

\* C28: any two create_backup calls return distinct ids, and the directory
\* of every backup (its files and its manifest) stays as its call left it.
C28_NeverOverwritten ==
    phase = "backup" =>
        /\ \A j, k \in 1..Len(bm.calls) : j # k => bm.calls[j].id # bm.calls[k].id
        /\ \A k \in 1..Len(bm.calls) : bm.store[bm.calls[k].id] = bm.calls[k].dir

----------------------------------------------------------------------------
(* The '{' line and the key it is bound to (SpecParse) *)

\* Line j is neither blank nor a comment.
Significant(j) ==
    LET line == Strip(lines[j])
    IN line # <<>> /\ ~StartsWith(line, <<"/", "/">>)

\* The nearest line before line j that is neither blank nor a comment
\* (0: there is none).
RECURSIVE NearestBefore(_)
NearestBefore(j) ==
    IF j <= 1 THEN 0
    ELSE IF Significant(j - 1) THEN j - 1 ELSE NearestBefore(j - 1)

\* The running activation stands at a '{' line and is about to open a
\* Section for its current_key.
AboutToBind ==
    /\ phase = "parsing" /\ ~pstate.done
    /\ LET f == TopFrame(pstate)
       IN /\ f.i < Len(lines)
          /\ Significant(f.i + 1)
          /\ ~IsClose(Strip(lines[f.i + 1]))
          /\ Len(TokensAt(f.i + 1)) >= 1
          /\ TokensAt(f.i + 1)[1] = <<"{">>
          /\ Truthy(f.current_key)

\* The line of the running activation's '{'.
BraceLine == TopFrame(pstate).i + 1

\* Whenever a '{' line is bound to a key, some bare key line of that key
\* was read before it.
BoundToSomeKeyLine ==
    AboutToBind =>
        \E j \in ReadLines :
            j < BraceLine /\ TokensAt(j) = <<TopFrame(pstate).current_key.key>>

\* C22: a '{' line whose nearest preceding line that is neither blank nor a
\* comment is a scalar line or a malformed line (two tokens, or three and
\* more) is not bound to a key: no Section is opened for the bare key
\* before that line.
C22_BraceBindsNearestKey ==
    AboutToBind =>
        LET j == NearestBefore(BraceLine)
        IN ~(j > 0 /\ Len(TokensAt(j)) >= 2)

----------------------------------------------------------------------------
(* Nesting follows the braces (SpecRT) *)

\* A token the tokenizer gives back as written: not empty, not a brace.
PlainToken(s) == s # <<>> /\ s # <<"{">> /\ s # <<"}">>

RECURSIVE WellFormed(_)
\* Every key and every scalar text of the dictionary, at every level, is a
\* plain token: its text is a scalar line per scalar, a bare key line, a '{'
\* line and a matching '}' line per section.
WellFormed(d) ==
    \A k \in 1..Len(d) :
        /\ PlainToken(d[k].key)
        /\ IF d[k].val.tag = "dict" THEN WellFormed(d[k].val.items)
           ELSE PlainToken(d[k].val.text)

RECURSIVE AsParsed(_)
\* The dictionary with every scalar as the parser stores it; keys, order and
\* nesting as written.
AsParsed(d) ==
    [k \in 1..Len(d) |->
        [key |-> d[k].key,
         val |-> IF d[k].val.tag = "dict" THEN DictValue(AsParsed(d[k].val.items))
                 ELSE ConvertValue(d[k].val.text)]]

RECURSIVE EntryAfterSection(_)
\* Somewhere in the dictionary an entry is written after a nested section's
\* closing brace, in the same parent.
EntryAfterSection(d) ==
    \/ \E k \in 1..Len(d) : d[k].val.tag = "dict" /\ k < Len(d)
    \/ \E k \in 1..Len(d) : d[k].val.tag = "dict" /\ EntryAfterSection(d[k].val.items)

\* C23: for well-formed text nested to any depth, the parsed document has
\* in every Section exactly the entries written between its braces, in the
\* order written, and the entries written after a nested Section's '}' are
\* in that Section's parent.
C23_NestingFollowsBraces ==
    (phase \in {"rt_parsed", "rt_done"} /\ WellFormed(doc)) => parsed = AsParsed(doc)

\* A parsed well-formed text with a Section inside a Section and an entry
\* after the inner closing brace.
C23_Witness ==
    /\ phase = "rt_parsed"
    /\ WellFormed(doc)
    /\ \E k \in 1..Len(doc) :
          /\ doc[k].val.tag = "dict"
          /\ EntryAfterSection(doc[k].val.items)
    /\ parsed = AsParsed(doc)

====
